---- MODULE Spec2Model ----
(***************************************************************************)
(* SkyReady: the two-tier TTL cache (services/cache.js), the feed fetchers *)
(* in front of it (services/weather.js, services/astro.js) and the refresh *)
(* cycle of the application (app.js).                                       *)
(*                                                                         *)
(* Time is an integer clock `now` (Date.now()).  In the cache              *)
(* specification one unit is an arbitrary tick; in the application         *)
(* specification one unit is one hour, so that CACHE_TTL is 3.             *)
(***************************************************************************)
EXTENDS Integers, Sequences, FiniteSets, TLC

\* ------------------------------------------------------------------ bounds
MaxTime == 2          \* the clock of the cache specification runs 0..MaxTime
MaxTtl == 2           \* ttl arguments of set are 1 (short) or MaxTtl (long)

\* --------------------------------------------------------------- constants
CACHE_PREFIX == "astroweather_cache_"

Null == "null"

\* Cache keys are (source, location) pairs: `weather_${lat}_${lon}` etc.
Sources == {"weather", "astro", "astro_daily"}
Locations == {"L1", "L2"}
CacheKeys == {<<s, l>> : s \in Sources, l \in Locations}

\* Keys the cache operations of the cache specification are called with.
OpKeys == {<<"weather", "L1">>, <<"astro", "L1">>}

\* Keys under which an earlier session may have left an unparsable item.
StaleKeys == {<<"weather", "L1">>, <<"astro_daily", "L1">>}

\* The locations the application is used at.
OpLocations == {"L1"}

\* Payloads passed to set in the cache specification (opaque to the cache).
OpValues == {"A", "B"}

VARIABLES
    now,            \* Date.now()
    memoryCache,    \* CacheService.memoryCache: storage key -> entry
    localStorage,   \* window.localStorage: storage key -> item
    ret,            \* the last call: operation, key, returned value, thrown?
    lastSet,        \* history: per key, the last set not followed by a
                    \* set/remove/clear of that key or a restart
    location,       \* state.location (Null or a location)
    conditions,     \* state.conditions: <<>> for null, else <<record>>
    score,          \* state.score: <<>> for null, else <<record>>
    forecast,       \* state.forecast
    error,          \* state.error
    cycle,          \* the loadWeatherData calls in progress
    fetched         \* history: per cache key, the last fetch that was cached

\* The application state, which the cache operations leave alone.
appState == <<location, conditions, score, forecast, error, cycle, fetched>>

cacheVars == <<now, memoryCache, localStorage, ret, lastSet, appState>>

appVars == cacheVars

\* ------------------------------------------------------------ cache values
_generateKey(key) == <<CACHE_PREFIX>> \o key

\* k.startsWith(CACHE_PREFIX)
startsWithCachePrefix(sk) == sk[1] = CACHE_PREFIX

StorageKeys == {_generateKey(k) : k \in CacheKeys} \cup {<<"skyready_settings">>}

NoEntry == [kind |-> "none", data |-> Null, expiry |-> 0, timestamp |-> 0]
NoItem == [kind |-> "none", data |-> Null, expiry |-> 0, timestamp |-> 0]
Garbage == [kind |-> "garbage", data |-> Null, expiry |-> 0, timestamp |-> 0]

\* The object set() builds: { data, expiry: Date.now() + ttl, timestamp }.
NewEntry(data, ttl, t) ==
    [kind |-> "entry", data |-> data, expiry |-> t + ttl, timestamp |-> t]

\* JSON.stringify of an entry is a stored string; JSON.parse of a stored
\* string either yields the entry back or throws (malformed text).
JSONstringify(e) ==
    [kind |-> "json", data |-> e.data, expiry |-> e.expiry, timestamp |-> e.timestamp]

JSONparseThrows(item) == item.kind = "garbage"

JSONparse(item) ==
    [kind |-> "entry", data |-> item.data, expiry |-> item.expiry, timestamp |-> item.timestamp]

\* get() without the promotion of line 45.
CacheGetNoPromote(mem, ls, key, t) ==
    LET ck == _generateKey(key)
        has == mem[ck].kind # "none"
        memHit == has /\ t < mem[ck].expiry
        mem1 == IF has THEN [mem EXCEPT ![ck] = NoEntry] ELSE mem
        stored == ls[ck]
    IN  IF memHit
          THEN [value |-> mem[ck].data, threw |-> FALSE, mem |-> mem, ls |-> ls]
        ELSE IF stored.kind = "none" \/ JSONparseThrows(stored)
          THEN [value |-> Null, threw |-> FALSE, mem |-> mem1, ls |-> ls]
        ELSE IF t < JSONparse(stored).expiry
          THEN [value |-> JSONparse(stored).data, threw |-> FALSE, mem |-> mem1, ls |-> ls]
          ELSE [value |-> Null, threw |-> FALSE,
                mem |-> mem1, ls |-> [ls EXCEPT ![ck] = NoItem]]

\* get() without the try/catch of lines 39-53.
CacheGetNoCatch(mem, ls, key, t) ==
    LET ck == _generateKey(key)
        has == mem[ck].kind # "none"
        memHit == has /\ t < mem[ck].expiry
        mem1 == IF has THEN [mem EXCEPT ![ck] = NoEntry] ELSE mem
        stored == ls[ck]
    IN  IF memHit
          THEN [value |-> mem[ck].data, threw |-> FALSE, mem |-> mem, ls |-> ls]
        ELSE IF stored.kind = "none"
          THEN [value |-> Null, threw |-> FALSE, mem |-> mem1, ls |-> ls]
        ELSE IF JSONparseThrows(stored)
          THEN [value |-> Null, threw |-> TRUE, mem |-> mem1, ls |-> ls]
        ELSE IF t < JSONparse(stored).expiry
          THEN [value |-> JSONparse(stored).data, threw |-> FALSE,
                mem |-> [mem1 EXCEPT ![ck] = JSONparse(stored)], ls |-> ls]
          ELSE [value |-> Null, threw |-> FALSE,
                mem |-> mem1, ls |-> [ls EXCEPT ![ck] = NoItem]]

\* -------------------------------------------------------- CacheService.get
\* Result of get(key) at time t: the returned value, whether the call threw,
\* and both tiers as the call leaves them.
CacheGet(mem, ls, key, t) ==
    LET ck == _generateKey(key)
        has == mem[ck].kind # "none"
        memHit == has /\ t < mem[ck].expiry
        \* line 35: an expired memory entry is deleted before falling through
        mem1 == IF has THEN [mem EXCEPT ![ck] = NoEntry] ELSE mem
        stored == ls[ck]
    IN  IF memHit
          THEN [value |-> mem[ck].data, threw |-> FALSE, mem |-> mem, ls |-> ls]
        ELSE IF stored.kind = "none"
          THEN [value |-> Null, threw |-> FALSE, mem |-> mem1, ls |-> ls]
        ELSE IF JSONparseThrows(stored)
          \* line 51: the parse error is caught and logged
          THEN [value |-> Null, threw |-> FALSE, mem |-> mem1, ls |-> ls]
        ELSE LET cached == JSONparse(stored)
             IN  IF t < cached.expiry
                   THEN [value |-> cached.data, threw |-> FALSE,
                         mem |-> [mem1 EXCEPT ![ck] = cached], ls |-> ls]
                   ELSE [value |-> Null, threw |-> FALSE,
                         mem |-> mem1, ls |-> [ls EXCEPT ![ck] = NoItem]]

\* ------------------------------------------- CacheService._cleanupStorage
\* `data.timestamp || 0`, and 0 for an entry that does not parse.
CleanupTimestamp(item) ==
    IF item.kind = "json" THEN item.timestamp ELSE 0

\* The sort with the comparator reversed (b.timestamp - a.timestamp).
SortedEntriesDescending(ls) ==
    LET keys == {sk \in DOMAIN ls : startsWithCachePrefix(sk) /\ ls[sk].kind # "none"}
        n == Cardinality(keys)
    IN  {s \in [1..n -> keys] :
            /\ \A i, j \in 1..n : i # j => s[i] # s[j]
            /\ \A i, j \in 1..n :
                 i < j => CleanupTimestamp(ls[s[i]]) >= CleanupTimestamp(ls[s[j]])}

\* The keys array after entries.sort((a, b) => a.timestamp - b.timestamp):
\* ascending by timestamp; entries of equal timestamp keep the order of
\* Object.keys(localStorage), which the platform chooses.
SortedEntries(ls) ==
    LET keys == {sk \in DOMAIN ls : startsWithCachePrefix(sk) /\ ls[sk].kind # "none"}
        n == Cardinality(keys)
    IN  {s \in [1..n -> keys] :
            /\ \A i, j \in 1..n : i # j => s[i] # s[j]
            /\ \A i, j \in 1..n :
                 i < j => CleanupTimestamp(ls[s[i]]) <= CleanupTimestamp(ls[s[j]])}

\* Math.ceil(entries.length / 2)
ToRemove(n) == (n + 1) \div 2

\* The possible contents of localStorage after _cleanupStorage().
_cleanupStorage(ls) ==
    {[sk \in DOMAIN ls |->
        IF \E i \in 1..ToRemove(Len(s)) : s[i] = sk THEN NoItem ELSE ls[sk]] :
     s \in SortedEntries(ls)}

\* set() that writes the durable tier first and lets the error escape.
CacheSetDurableFirst(mem, ls, key, data, ttl, t, full) ==
    LET ck == _generateKey(key)
        cached == NewEntry(data, ttl, t)
    IN  IF ~full
          THEN {[threw |-> FALSE, mem |-> [mem EXCEPT ![ck] = cached],
                 ls |-> [ls EXCEPT ![ck] = JSONstringify(cached)]]}
          ELSE {[threw |-> TRUE, mem |-> mem, ls |-> ls]}

\* -------------------------------------------------------- CacheService.set
\* The possible results of set(key, data, ttl) at time t; `full` says whether
\* localStorage.setItem throws (quota exceeded).
CacheSet(mem, ls, key, data, ttl, t, full) ==
    LET ck == _generateKey(key)
        cached == NewEntry(data, ttl, t)
        mem1 == [mem EXCEPT ![ck] = cached]
    IN  IF ~full
          THEN {[threw |-> FALSE, mem |-> mem1,
                 ls |-> [ls EXCEPT ![ck] = JSONstringify(cached)]]}
          \* line 78: the write error is caught, then old entries are evicted
          ELSE {[threw |-> FALSE, mem |-> mem1, ls |-> ls1] :
                ls1 \in _cleanupStorage(ls)}

\* ----------------------------------------------------- CacheService.remove
CacheRemove(mem, ls, key) ==
    LET ck == _generateKey(key)
    IN  [threw |-> FALSE, mem |-> [mem EXCEPT ![ck] = NoEntry],
         ls |-> [ls EXCEPT ![ck] = NoItem]]

\* clear() that removes every key of the store.
CacheClearEverything(mem, ls) ==
    [threw |-> FALSE,
     mem |-> [ck \in DOMAIN mem |-> NoEntry],
     ls |-> [sk \in DOMAIN ls |-> NoItem]]

\* ------------------------------------------------------ CacheService.clear
CacheClear(mem, ls) ==
    [threw |-> FALSE,
     mem |-> [ck \in DOMAIN mem |-> NoEntry],
     ls |-> [sk \in DOMAIN ls |-> IF startsWithCachePrefix(sk) THEN NoItem ELSE ls[sk]]]

\* ------------------------------------------- refresh cycles (app.js state)
Cycles == {"c1"}

Fetch(st, data, cached, netError) ==
    [st |-> st, data |-> data, cached |-> cached, netError |-> netError]

IdleFetch == Fetch("idle", Null, FALSE, FALSE)

\* A request is in flight (after `await fetch(url)`).
PendingFetch == Fetch("pending", Null, FALSE, FALSE)

IdleCycle ==
    [pc |-> "idle", loc |-> Null, weather |-> IdleFetch, astro |-> IdleFetch,
     daily |-> IdleFetch]

\* ------------------------------------------------- the cache specification
NoCall == [kind |-> "none", data |-> Null, t0 |-> 0, ttl |-> 0, full |-> FALSE]

NoFetch == [kind |-> "none", data |-> Null, t0 |-> 0, session |-> FALSE]

Call(op, key, value, threw, full) ==
    [op |-> op, key |-> key, value |-> value, threw |-> threw, full |-> full]

EmptyMemory == [ck \in {_generateKey(k) : k \in CacheKeys} |-> NoEntry]

SettingsItem == [kind |-> "json", data |-> "settings", expiry |-> 0, timestamp |-> 0]

\* A fresh process (constructor: memoryCache = new Map()) over a durable
\* store left by earlier sessions: empty or unparsable items.
InitCache ==
    /\ now = 0
    /\ memoryCache = EmptyMemory
    /\ localStorage \in {ls \in [StorageKeys -> {NoItem, Garbage, SettingsItem}] :
            /\ ls[<<"skyready_settings">>] = SettingsItem
            /\ \A k \in CacheKeys :
                 /\ ls[_generateKey(k)] # SettingsItem
                 /\ k \notin StaleKeys => ls[_generateKey(k)] = NoItem}
    /\ ret = Call("init", <<>>, Null, FALSE, FALSE)
    /\ lastSet = [k \in CacheKeys |-> NoCall]
    /\ location = Null
    /\ conditions = <<>>
    /\ score = <<>>
    /\ forecast = <<>>
    /\ error = Null
    /\ cycle = [c \in Cycles |-> IdleCycle]
    /\ fetched = [k \in CacheKeys |-> NoFetch]

Get(k) ==
    LET r == CacheGet(memoryCache, localStorage, k, now)
    IN  /\ memoryCache' = r.mem
        /\ localStorage' = r.ls
        /\ ret' = Call("get", k, r.value, r.threw, FALSE)
        /\ UNCHANGED <<now, lastSet, appState>>

Set(k, v, ttl, full) ==
    \E r \in CacheSet(memoryCache, localStorage, k, v, ttl, now, full) :
        /\ memoryCache' = r.mem
        /\ localStorage' = r.ls
        /\ ret' = Call("set", k, v, r.threw, full)
        /\ lastSet' = [lastSet EXCEPT ![k] =
                          [kind |-> "set", data |-> v, t0 |-> now, ttl |-> ttl, full |-> full]]
        /\ UNCHANGED <<now, appState>>

Remove(k) ==
    LET r == CacheRemove(memoryCache, localStorage, k)
    IN  /\ memoryCache' = r.mem
        /\ localStorage' = r.ls
        /\ ret' = Call("remove", k, Null, r.threw, FALSE)
        /\ lastSet' = [lastSet EXCEPT ![k] = NoCall]
        /\ UNCHANGED <<now, appState>>

Clear ==
    LET r == CacheClear(memoryCache, localStorage)
    IN  /\ memoryCache' = r.mem
        /\ localStorage' = r.ls
        /\ ret' = Call("clear", <<>>, Null, r.threw, FALSE)
        /\ lastSet' = [k \in CacheKeys |-> NoCall]
        /\ UNCHANGED <<now, appState>>

\* Time passes.
Tick ==
    /\ now < MaxTime
    /\ now' = now + 1
    /\ ret' = Call("tick", <<>>, Null, FALSE, FALSE)
    /\ UNCHANGED <<memoryCache, localStorage, lastSet, appState>>

\* The page is reloaded: a new CacheService with an empty memoryCache;
\* localStorage survives.
Restart ==
    /\ memoryCache' = EmptyMemory
    /\ ret' = Call("restart", <<>>, Null, FALSE, FALSE)
    /\ lastSet' = [k \in CacheKeys |-> NoCall]
    /\ UNCHANGED <<now, localStorage, appState>>

NextCache ==
    \/ \E k \in OpKeys : Get(k)
    \/ \E k \in OpKeys, v \in OpValues, ttl \in {1, MaxTtl}, full \in BOOLEAN :
          Set(k, v, ttl, full)
    \/ \E k \in OpKeys : Remove(k)
    \/ Clear
    \/ Tick
    \/ Restart

SpecCache == InitCache /\ [][NextCache]_cacheVars

\* ==================================================== scoring (score.js)
\* Percentages 0..100 are integers.  Sub-scores and the cloud-cover band
\* are carried in tenths (x10) so that `illumination * 0.3` and
\* `cloudSpread * 0.3` stay exact; weights are carried in hundredths.
\* A weight table whose planetary row favours seeing beyond the whole.
MODE_WEIGHTS_Unbalanced ==
    ("general" :> [cloudCover |-> 40, seeing |-> 20, transparency |-> 20,
                   moonPhase |-> 15, humidity |-> 5]) @@
    ("deep-sky" :> [cloudCover |-> 40, seeing |-> 10, transparency |-> 30,
                    moonPhase |-> 15, humidity |-> 5]) @@
    ("planetary" :> [cloudCover |-> 35, seeing |-> 45, transparency |-> 10,
                     moonPhase |-> 10, humidity |-> 5]) @@
    ("milky-way" :> [cloudCover |-> 45, seeing |-> 5, transparency |-> 25,
                     moonPhase |-> 20, humidity |-> 5])

MODE_WEIGHTS ==
    ("general" :> [cloudCover |-> 40, seeing |-> 20, transparency |-> 20,
                   moonPhase |-> 15, humidity |-> 5]) @@
    ("deep-sky" :> [cloudCover |-> 40, seeing |-> 10, transparency |-> 30,
                    moonPhase |-> 15, humidity |-> 5]) @@
    ("planetary" :> [cloudCover |-> 35, seeing |-> 40, transparency |-> 10,
                     moonPhase |-> 10, humidity |-> 5]) @@
    ("milky-way" :> [cloudCover |-> 45, seeing |-> 5, transparency |-> 25,
                     moonPhase |-> 20, humidity |-> 5])

Modes == DOMAIN MODE_WEIGHTS

\* A field that is undefined in the JavaScript object is absent here.
Has(c, f) == f \in DOMAIN c

Max2(a, b) == IF a >= b THEN a ELSE b
Min2(a, b) == IF a <= b THEN a ELSE b

\* Math.round(num / den) for den > 0: halves round towards +infinity.
MathRound(num, den) == (2 * num + den) \div (2 * den)

\* A cloud score that grows with the cloud cover.
_calculateCloudScoreDirect(c) ==
    IF ~Has(c, "cloudCover") THEN 500
    ELSE Max2(0, Min2(1000, 10 * c.cloudCover))

\* Sub-scores, in tenths.
_calculateCloudScore(c) ==
    IF ~Has(c, "cloudCover") THEN 500
    ELSE Max2(0, Min2(1000, 1000 - 10 * c.cloudCover))

_calculateSeeingScore(c) ==
    IF ~Has(c, "seeing") \/ c.seeing = 0 THEN 600
    ELSE Min2(1000, c.seeing * 200)

_calculateTransparencyScore(c) ==
    IF ~Has(c, "transparency") \/ c.transparency = 0 THEN 600
    ELSE Min2(1000, c.transparency * 200)

_calculateMoonScore(c) ==
    IF ~Has(c, "moonIllumination") THEN 800
    ELSE IF ~(Has(c, "isMoonUp") /\ c.isMoonUp) THEN 1000 - 3 * c.moonIllumination
    ELSE Max2(0, 1000 - 10 * c.moonIllumination)

_calculateHumidityScore(c) ==
    IF ~Has(c, "humidity") THEN 700
    ELSE IF c.humidity <= 50 THEN 1000
    ELSE IF c.humidity <= 60 THEN 900
    ELSE IF c.humidity <= 70 THEN 750
    ELSE IF c.humidity <= 80 THEN 500
    ELSE IF c.humidity <= 90 THEN 250
    ELSE 100

\* cloudCoverMax and cloudCoverMin are in tenths, so are the thresholds.
_calculateUncertainty(c) ==
    LET cloudSpread == IF Has(c, "cloudCoverMax") /\ Has(c, "cloudCoverMin")
                         THEN c.cloudCoverMax - c.cloudCoverMin ELSE 0
    IN  IF cloudSpread > 400 THEN 20
        ELSE IF cloudSpread > 250 THEN 15
        ELSE IF cloudSpread > 150 THEN 10
        ELSE IF cloudSpread > 50 THEN 5
        ELSE 0

_getScoreRating(points) ==
    IF points >= 90 THEN "perfect"
    ELSE IF points >= 70 THEN "very-good"
    ELSE IF points >= 50 THEN "good"
    ELSE IF points >= 30 THEN "moderate"
    ELSE "poor"

Warning(type, severity) == [type |-> type, severity |-> severity]

\* Warnings with the wind rule evaluated before the fog rule.
_generateWarningsWindFirst(c) ==
    (IF Has(c, "windSpeed") /\ c.windSpeed >= 30 THEN <<Warning("high-wind", "high")>>
     ELSE IF Has(c, "windSpeed") /\ c.windSpeed >= 20 THEN <<Warning("high-wind", "medium")>>
     ELSE <<>>)
    \o (IF Has(c, "humidity") /\ c.humidity >= 75
          THEN <<Warning("fog-risk", "medium")>> ELSE <<>>)
    \o (IF Has(c, "cloudCover") /\ c.cloudCover >= 40
          THEN <<Warning("clouds", "medium")>> ELSE <<>>)

_generateWarnings(c) ==
    (IF Has(c, "humidity") /\ c.humidity >= 85 /\ Has(c, "temperature") /\ c.temperature <= 5
       THEN <<Warning("fog-risk", "high")>>
     ELSE IF Has(c, "humidity") /\ c.humidity >= 75
       THEN <<Warning("fog-risk", "medium")>>
     ELSE <<>>)
    \o (IF Has(c, "windSpeed") /\ c.windSpeed >= 30 THEN <<Warning("high-wind", "high")>>
        ELSE IF Has(c, "windSpeed") /\ c.windSpeed >= 20 THEN <<Warning("high-wind", "medium")>>
        ELSE <<>>)
    \o (IF Has(c, "cloudCover") /\ c.cloudCover >= 70 THEN <<Warning("clouds", "high")>>
        ELSE IF Has(c, "cloudCover") /\ c.cloudCover >= 40 THEN <<Warning("clouds", "medium")>>
        ELSE <<>>)
    \o (IF Has(c, "isMoonUp") /\ c.isMoonUp /\ Has(c, "moonIllumination")
           /\ c.moonIllumination >= 70
          THEN <<Warning("moon-bright", "medium")>> ELSE <<>>)
    \o (IF Has(c, "cloudCoverConfidence") /\ c.cloudCoverConfidence = "low"
          THEN <<Warning("low-confidence", "low")>> ELSE <<>>)

calculateScore(c, mode) ==
    LET weights == IF mode \in DOMAIN MODE_WEIGHTS THEN MODE_WEIGHTS[mode]
                   ELSE MODE_WEIGHTS["general"]
        cloudScore == _calculateCloudScore(c)
        seeingScore == _calculateSeeingScore(c)
        transparencyScore == _calculateTransparencyScore(c)
        moonScore == _calculateMoonScore(c)
        humidityScore == _calculateHumidityScore(c)
        overallScore == MathRound(cloudScore * weights.cloudCover
                                  + seeingScore * weights.seeing
                                  + transparencyScore * weights.transparency
                                  + moonScore * weights.moonPhase
                                  + humidityScore * weights.humidity, 1000)
    IN  [overallScore |-> overallScore,
         scoreRating |-> _getScoreRating(overallScore),
         scoreUncertainty |-> _calculateUncertainty(c),
         breakdown |-> [cloud |-> [score |-> cloudScore, weight |-> weights.cloudCover],
                        seeing |-> [score |-> seeingScore, weight |-> weights.seeing],
                        transparency |-> [score |-> transparencyScore,
                                          weight |-> weights.transparency],
                        moon |-> [score |-> moonScore, weight |-> weights.moonPhase],
                        humidity |-> [score |-> humidityScore, weight |-> weights.humidity]],
         warnings |-> _generateWarnings(c)]

\* ======================================== feed normalisation (weather.js)
\* Timestamps are whole hours on the application clock; hour 0 of the
\* clock is ClockOriginHour o'clock local time on local day 0.
ClockOriginHour == 20

getHours(ts) == (ts + ClockOriginHour) % 24
LocalDate(ts) == (ts + ClockOriginHour) \div 24

Max3(a, b, c) == Max2(a, Max2(b, c))
Min3(a, b, c) == Min2(a, Min2(b, c))

\* round(((degrees % 360) / 45)) % 8, as an index into the 8 labels
_getWindDirectionLabel(degrees) ==
    LET directions == <<"N", "NE", "E", "SE", "S", "SW", "W", "NW">>
        index == MathRound(degrees % 360, 45) % 8
    IN  directions[index + 1]

\* A record whose confidence label is taken from the width of its
\* cloud-cover band (cloudCoverMax - cloudCoverMin, in tenths).
ProcessWeatherHourBandConfidence(h) ==
    LET cloudSpread == Max3(h.cloud_cover_low, h.cloud_cover_mid, h.cloud_cover_high)
                       - Min3(h.cloud_cover_low, h.cloud_cover_mid, h.cloud_cover_high)
        cloudCoverMin == Max2(0, 10 * h.cloud_cover - 3 * cloudSpread)
        cloudCoverMax == Min2(1000, 10 * h.cloud_cover + 3 * cloudSpread)
    IN  [timestamp |-> h.time,
         cloudCover |-> h.cloud_cover,
         cloudCoverMin |-> cloudCoverMin,
         cloudCoverMax |-> cloudCoverMax,
         cloudCoverSpread |-> cloudSpread,
         cloudCoverConfidence |-> IF cloudCoverMax - cloudCoverMin < 200 THEN "high"
                                  ELSE IF cloudCoverMax - cloudCoverMin < 400 THEN "medium"
                                  ELSE "low",
         temperature |-> h.temperature_2m,
         humidity |-> h.relative_humidity_2m,
         windSpeed |-> h.wind_speed_10m,
         windDirectionLabel |-> _getWindDirectionLabel(h.wind_direction_10m)]

\* One element of processedHours in _processWeatherData.
ProcessWeatherHour(h) ==
    LET cloudSpread == Max3(h.cloud_cover_low, h.cloud_cover_mid, h.cloud_cover_high)
                       - Min3(h.cloud_cover_low, h.cloud_cover_mid, h.cloud_cover_high)
    IN  [timestamp |-> h.time,
         cloudCover |-> h.cloud_cover,
         cloudCoverMin |-> Max2(0, 10 * h.cloud_cover - 3 * cloudSpread),
         cloudCoverMax |-> Min2(1000, 10 * h.cloud_cover + 3 * cloudSpread),
         cloudCoverSpread |-> cloudSpread,
         cloudCoverConfidence |-> IF cloudSpread < 20 THEN "high"
                                  ELSE IF cloudSpread < 40 THEN "medium" ELSE "low",
         temperature |-> h.temperature_2m,
         humidity |-> h.relative_humidity_2m,
         windSpeed |-> h.wind_speed_10m,
         windDirectionLabel |-> _getWindDirectionLabel(h.wind_direction_10m)]

_processWeatherData(data) ==
    [hourly |-> [i \in 1..Len(data.hourly) |-> ProcessWeatherHour(data.hourly[i])]]

\* ============================================ feed normalisation (astro.js)
\* A seeing conversion that is linear in the code.
_convertSeeingLinear(value) ==
    IF value = 0 THEN 3
    ELSE IF value <= 2 THEN 5
    ELSE IF value <= 4 THEN 4
    ELSE IF value <= 6 THEN 3
    ELSE IF value = 7 THEN 2
    ELSE 1

_convertSeeing(value) ==
    IF value = 0 THEN 3
    ELSE IF value <= 2 THEN 5
    ELSE IF value <= 4 THEN 4
    ELSE IF value = 5 THEN 3
    ELSE IF value = 6 THEN 2
    ELSE 1

_convertTransparency(value) ==
    IF value = 0 THEN 3
    ELSE IF value >= 7 THEN 5
    ELSE IF value >= 5 THEN 4
    ELSE IF value = 4 THEN 3
    ELSE IF value >= 2 THEN 2
    ELSE 1

RatingLabel(converted) ==
    IF converted = 5 THEN "Ausgezeichnet"
    ELSE IF converted = 4 THEN "Gut"
    ELSE IF converted = 3 THEN "Durchschnittlich"
    ELSE IF converted = 2 THEN "Unterdurchschnittlich"
    ELSE IF converted = 1 THEN "Schlecht"
    ELSE "Unbekannt"

_getSeeingLabel(value) == RatingLabel(_convertSeeing(value))
_getTransparencyLabel(value) == RatingLabel(_convertTransparency(value))

_getDefaultAstroData == [hourly |-> <<>>, isDefault |-> TRUE]

\* entry.seeing / entry.transparency as the conversions test it: an absent
\* (undefined) code is falsy like 0, and `!value` is all they ask of it.
Code(entry, f) == IF Has(entry, f) THEN entry[f] ELSE 0

\* data.init is the base hour; timepoint is the offset in hours.
_processAstroData(data) ==
    IF ~Has(data, "dataseries") THEN _getDefaultAstroData
    ELSE [hourly |-> [i \in 1..Len(data.dataseries) |->
                [timestamp |-> data.init + data.dataseries[i].timepoint,
                 seeing |-> _convertSeeing(Code(data.dataseries[i], "seeing")),
                 seeingLabel |-> _getSeeingLabel(Code(data.dataseries[i], "seeing")),
                 transparency |->
                     _convertTransparency(Code(data.dataseries[i], "transparency")),
                 transparencyLabel |->
                     _getTransparencyLabel(Code(data.dataseries[i], "transparency"))]],
          isDefault |-> FALSE]

\* ================================================= feed responses (inputs)
\* Response bodies of the three feeds, named by an identifier.  The cache
\* stores the identifier of the body a processed payload was made from.
RawHour(time, cc, lo, mi, hi, temp, hum, wind, dir) ==
    [time |-> time, cloud_cover |-> cc, cloud_cover_low |-> lo,
     cloud_cover_mid |-> mi, cloud_cover_high |-> hi, temperature_2m |-> temp,
     relative_humidity_2m |-> hum, wind_speed_10m |-> wind,
     wind_direction_10m |-> dir]

WeatherBodies == {"W1", "W2"}

WeatherBody(id) ==
    IF id = "W1"
      THEN [hourly |-> <<RawHour(-1, 10, 0, 10, 5, 8, 40, 5, 90),
                         RawHour(0, 20, 10, 20, 15, 6, 55, 10, 180),
                         RawHour(1, 30, 0, 30, 60, 4, 86, 22, 200),
                         RawHour(3, 5, 0, 5, 0, 3, 70, 31, 350),
                         RawHour(14, 50, 50, 20, 10, 12, 45, 8, 0),
                         RawHour(23, 0, 0, 0, 0, 9, 50, 3, 45)>>]
      ELSE [hourly |-> <<RawHour(-1, 80, 80, 30, 10, 2, 90, 35, 270),
                         RawHour(0, 90, 90, 70, 20, 1, 95, 30, 300),
                         RawHour(2, 75, 10, 75, 40, 0, 80, 19, 10),
                         RawHour(4, 45, 5, 45, 30, -1, 76, 12, 120),
                         RawHour(24, 100, 100, 100, 100, 5, 99, 40, 225)>>]

AstroBodies == {"S1", "S0"}

\* "S0" is a 2xx body without a dataseries.
AstroBody(id) ==
    IF id = "S1"
      THEN [init |-> -2,
            dataseries |-> <<[timepoint |-> 1, seeing |-> 2, transparency |-> 7],
                             [timepoint |-> 4, seeing |-> 6, transparency |-> 2],
                             [timepoint |-> 7, seeing |-> 8, transparency |-> 5]>>]
      ELSE [init |-> -2]

DailyBodies == {"D1"}

\* The result of fetchAstronomicalData: data.daily plus the moon phases
\* _calculateMoonPhase derives from the dates (illumination in percent).
DailyData(id) ==
    [sunrise |-> <<11, 35>>, sunset |-> <<-3, 21>>,
     moonPhases |-> <<[illumination |-> 90], [illumination |-> 20]>>]

DefaultAstro == "DEFAULT"

\* The payload behind a weather, seeing or daily cache value.
WeatherPayload(id) == _processWeatherData(WeatherBody(id))

AstroPayload(id) ==
    IF id = DefaultAstro THEN _getDefaultAstroData ELSE _processAstroData(AstroBody(id))

\* The identifier under which fetchAstroData caches what _processAstroData
\* made of a body.
ProcessedAstroId(body) ==
    IF _processAstroData(AstroBody(body)).isDefault THEN DefaultAstro ELSE body

\* ===================================================== the refresh (app.js)
Abs(x) == IF x < 0 THEN -x ELSE x

\* 1-based position of the record used as the current hour; 0 when
\* hourlyData is empty.
findCurrentHourIndex(hourlyData, t) ==
    LET future == {i \in 1..Len(hourlyData) : hourlyData[i].timestamp >= t}
    IN  IF Len(hourlyData) = 0 THEN 0
        ELSE IF future = {} THEN 1
        ELSE LET i == CHOOSE x \in future : \A y \in future : x <= y
             IN  Max2(1, i - 1)

\* The loop of findMatchingAstroData from entry i on: `closest` is the
\* position retained so far, minDiff its distance (<<>> for Infinity).
RECURSIVE ClosestScan(_, _, _, _, _)
ClosestScan(hourly, targetTime, i, closest, minDiff) ==
    IF i > Len(hourly) THEN closest
    ELSE LET diff == Abs(hourly[i].timestamp - targetTime)
         IN  IF Len(minDiff) = 0 \/ diff < minDiff[1]
               THEN ClosestScan(hourly, targetTime, i + 1, i, <<diff>>)
               ELSE ClosestScan(hourly, targetTime, i + 1, closest, minDiff)

\* An aligner that keeps the last of the closest entries (diff <= minDiff).
findMatchingAstroDataLast(astroData, targetTime) ==
    IF ~Has(astroData, "hourly") THEN <<>>
    ELSE IF Len(astroData.hourly) = 0 THEN <<>>
    ELSE LET n == Len(astroData.hourly)
             diff(i) == Abs(astroData.hourly[i].timestamp - targetTime)
             best == CHOOSE i \in 1..n :
                        /\ \A j \in 1..n : diff(i) <= diff(j)
                        /\ \A j \in (i + 1)..n : diff(j) > diff(i)
         IN  <<astroData.hourly[best]>>

\* <<>> for null, <<entry>> otherwise.
findMatchingAstroData(astroData, targetTime) ==
    IF ~Has(astroData, "hourly") THEN <<>>
    ELSE IF Len(astroData.hourly) = 0 THEN <<>>
    ELSE <<astroData.hourly[ClosestScan(astroData.hourly, targetTime, 1, 1, <<>>)]>>

isMoonUp(t) == getHours(t) >= 20 \/ getHours(t) <= 5

\* `x?.field || dflt` on an optional record
OrDefault(opt, field, dflt) ==
    IF Len(opt) = 0 THEN dflt
    ELSE IF opt[1][field] = 0 THEN dflt
    ELSE opt[1][field]

MoonFields(moonPhases, index) ==
    IF index <= Len(moonPhases)
      THEN [moonIllumination |-> moonPhases[index].illumination]
      ELSE [x \in {} |-> 0]

\* The conditions object of processWeatherData (lines 241-271).
CurrentConditions(weatherData, astroData, astronomicalData, t) ==
    LET currentHour == weatherData.hourly[findCurrentHourIndex(weatherData.hourly, t)]
        currentAstro == findMatchingAstroData(astroData, t)
    IN  [timestamp |-> currentHour.timestamp,
         cloudCover |-> currentHour.cloudCover,
         cloudCoverMin |-> currentHour.cloudCoverMin,
         cloudCoverMax |-> currentHour.cloudCoverMax,
         cloudCoverConfidence |-> currentHour.cloudCoverConfidence,
         seeing |-> OrDefault(currentAstro, "seeing", 3),
         seeingLabel |-> IF Len(currentAstro) = 0 THEN "Durchschnittlich"
                         ELSE currentAstro[1].seeingLabel,
         transparency |-> OrDefault(currentAstro, "transparency", 3),
         transparencyLabel |-> IF Len(currentAstro) = 0 THEN "Durchschnittlich"
                               ELSE currentAstro[1].transparencyLabel,
         temperature |-> currentHour.temperature,
         humidity |-> currentHour.humidity,
         windSpeed |-> currentHour.windSpeed,
         windDirectionLabel |-> currentHour.windDirectionLabel,
         isMoonUp |-> isMoonUp(t),
         sunrise |-> astronomicalData.sunrise[1],
         sunset |-> astronomicalData.sunset[1]]
        @@ MoonFields(astronomicalData.moonPhases, 1)

\* Object.keys(dailyGroups): the local dates in order of first occurrence.
RECURSIVE DateKeys(_, _, _)
DateKeys(hourly, i, acc) ==
    IF i > Len(hourly) THEN acc
    ELSE LET dateKey == LocalDate(hourly[i].timestamp)
         IN  DateKeys(hourly, i + 1,
                      IF \E j \in 1..Len(acc) : acc[j] = dateKey THEN acc
                      ELSE Append(acc, dateKey))

RECURSIVE SeqSum(_)
SeqSum(q) == IF Len(q) = 0 THEN 0 ELSE Head(q) + SeqSum(Tail(q))

\* The loop of findBestHour: `best` is the position of the entry retained so
\* far, replaced on a strictly greater score.
RECURSIVE BestScan(_, _, _)
BestScan(hourlyScores, i, best) ==
    IF i > Len(hourlyScores) THEN best
    ELSE BestScan(hourlyScores, i + 1,
                  IF hourlyScores[i].score > hourlyScores[best].score THEN i ELSE best)

\* A best hour that is the last of the entries with the greatest score.
findBestHourLast(hourlyScores) ==
    IF Len(hourlyScores) = 0 THEN <<>>
    ELSE LET greatest == hourlyScores[BestScan(hourlyScores, 1, 1)].score
             last == CHOOSE i \in 1..Len(hourlyScores) :
                        /\ hourlyScores[i].score = greatest
                        /\ \A j \in (i + 1)..Len(hourlyScores) :
                              hourlyScores[j].score < greatest
         IN  <<hourlyScores[last].timestamp>>

\* <<>> for null, <<timestamp>> otherwise.
findBestHour(hourlyScores) ==
    IF Len(hourlyScores) = 0 THEN <<>>
    ELSE <<hourlyScores[BestScan(hourlyScores, 1, 1)].timestamp>>

\* A night window that ends before 06:00.
isNightHourBeforeSix(h) ==
    getHours(h.timestamp) >= 18 \/ getHours(h.timestamp) < 6

\* The filter of nightHours (lines 351-354).
isNightHour(h) ==
    getHours(h.timestamp) >= 18 \/ getHours(h.timestamp) <= 6

\* The conditions object of one night hour (lines 364-373).
NightConditions(h, astroData, moonPhases, index) ==
    LET matchingAstro == findMatchingAstroData(astroData, h.timestamp)
        illumination == IF index <= Len(moonPhases)
                          THEN moonPhases[index].illumination ELSE 0
    IN  [cloudCover |-> h.cloudCover,
         cloudCoverMin |-> h.cloudCoverMin,
         cloudCoverMax |-> h.cloudCoverMax,
         seeing |-> OrDefault(matchingAstro, "seeing", 3),
         transparency |-> OrDefault(matchingAstro, "transparency", 3),
         humidity |-> h.humidity,
         moonIllumination |-> IF illumination = 0 THEN 50 ELSE illumination,
         isMoonUp |-> TRUE]

\* One element of the forecast (the body of dates.forEach).
DayForecast(dateKey, index, weatherData, astroData, astronomicalData, mode) ==
    LET hours == SelectSeq(weatherData.hourly,
                           LAMBDA h : LocalDate(h.timestamp) = dateKey)
        nightHours == SelectSeq(hours, isNightHour)
        result == [i \in 1..Len(nightHours) |->
                      calculateScore(NightConditions(nightHours[i], astroData,
                                         astronomicalData.moonPhases, index), mode)]
        hourlyScores == [i \in 1..Len(nightHours) |->
            [timestamp |-> nightHours[i].timestamp,
             score |-> result[i].overallScore,
             scoreMin |-> Max2(0, result[i].overallScore - result[i].scoreUncertainty),
             scoreMax |-> Min2(100, result[i].overallScore + result[i].scoreUncertainty)]]
        scores == [i \in 1..Len(nightHours) |-> result[i].overallScore]
        dayScore == IF Len(nightHours) > 0 THEN MathRound(SeqSum(scores), Len(scores))
                    ELSE 50
    IN  [date |-> dateKey,
         overallScore |-> dayScore,
         scoreRating |-> IF Len(nightHours) > 0 THEN _getScoreRating(dayScore) ELSE "good",
         scoreUncertainty |-> 10,
         hourlyScores |-> hourlyScores,
         bestHour |-> findBestHour(hourlyScores)]

\* A forecast with one entry for every date of the series.
buildForecastDataAllDates(weatherData, astroData, astronomicalData, mode) ==
    LET dates == DateKeys(weatherData.hourly, 1, <<>>)
    IN  [index \in 1..Len(dates) |->
            DayForecast(dates[index], index, weatherData, astroData,
                        astronomicalData, mode)]

buildForecastData(weatherData, astroData, astronomicalData, mode) ==
    LET keys == DateKeys(weatherData.hourly, 1, <<>>)
        dates == SubSeq(keys, 1, Min2(4, Len(keys)))
    IN  [index \in 1..Len(dates) |->
            DayForecast(dates[index], index, weatherData, astroData,
                        astronomicalData, mode)]

\* ============================================ the application specification
\* A time to live of two hours.
CACHE_TTL_TwoHours == 3 - 1

CACHE_TTL == 3      \* 3 * 60 * 60 * 1000 ms, in hours

DEFAULT_SETTINGS == [photographyMode |-> "general"]

\* A weather fetcher that recovers from a failed request with a payload.
WeatherFetchRecovered == Fetch("ok", "W1", FALSE, TRUE)

\* fetchWeatherData rethrows (weather.js:69).
WeatherFetchFailed == Fetch("failed", Null, FALSE, TRUE)

\* fetchAstronomicalData rethrows (weather.js:123).
DailyFetchFailed == Fetch("failed", Null, FALSE, TRUE)

\* A seeing fetcher that rethrows.
AstroFetchRethrown == Fetch("failed", Null, FALSE, TRUE)

\* fetchAstroData catches and returns the default data (astro.js:52-56).
AstroFetchFailed == Fetch("ok", DefaultAstro, FALSE, TRUE)

\* The synchronous head of a fetcher: the cache lookup, then either the
\* cached value or a request.
StartFetch(mem, ls, src, loc, t) ==
    LET r == CacheGet(mem, ls, <<src, loc>>, t)
    IN  [fetch |-> IF r.threw THEN Fetch("failed", Null, FALSE, FALSE)
                   ELSE IF r.value # Null THEN Fetch("ok", r.value, TRUE, FALSE)
                   ELSE PendingFetch,
         mem |-> r.mem, ls |-> r.ls]

MaxAppTime == 3     \* the clock of the application specification, in hours

\* The values the seeing fetcher can hand over.
AstroDataIds == {ProcessedAstroId(body) : body \in AstroBodies} \cup {DefaultAstro}

\* The state processWeatherData derives from three payloads at time t
\* (lines 222-284): conditions, score and forecast.
Processed(weather, astro, daily, t) ==
    LET weatherData == WeatherPayload(weather)
        astroData == AstroPayload(astro)
        astronomicalData == DailyData(daily)
        c == CurrentConditions(weatherData, astroData, astronomicalData, t)
    IN  [conditions |-> <<c>>,
         score |-> <<calculateScore(c, DEFAULT_SETTINGS.photographyMode)>>,
         forecast |-> buildForecastData(weatherData, astroData, astronomicalData,
                                        DEFAULT_SETTINGS.photographyMode)]

\* Processed, tabulated over the payloads and hours of this model.
ProcessedTable ==
    [weather \in WeatherBodies, astro \in AstroDataIds, daily \in DailyBodies,
     t \in 0..MaxAppTime |-> Processed(weather, astro, daily, t)]

\* processWeatherData: conditions, score and forecast of one cycle.
processWeatherData(cyc, app, t) ==
    LET r == ProcessedTable[cyc.weather.data, cyc.astro.data, cyc.daily.data, t]
    IN  [app EXCEPT !.conditions = r.conditions,
                    !.score = r.score,
                    !.forecast = r.forecast]

\* loadWeatherData from `await fetchAstronomicalData` on (lines 209-219).
AfterDaily(M, t) ==
    IF M.cyc.pc # "await_daily" THEN M
    ELSE IF M.cyc.daily.st = "failed"
      THEN [M EXCEPT !.cyc.pc = "failed", !.app.error = "astro_daily"]
    ELSE IF M.cyc.daily.st = "ok"
      THEN [M EXCEPT !.cyc.pc = "done", !.app = processWeatherData(M.cyc, M.app, t)]
    ELSE M

\* The third fetch, issued by the continuation of the join (line 209).
IssueDaily(M, t) ==
    LET s == StartFetch(M.mem, M.ls, "astro_daily", M.cyc.loc, t)
    IN  [M EXCEPT !.mem = s.mem, !.ls = s.ls, !.cyc.daily = s.fetch,
                  !.cyc.pc = "await_daily"]

\* loadWeatherData from `await Promise.all` on (lines 203-219).
AfterJoin(M, t) ==
    IF M.cyc.pc # "await_all" THEN M
    ELSE IF M.cyc.weather.st = "failed"
      THEN [M EXCEPT !.cyc.pc = "failed", !.app.error = "weather"]
    ELSE IF M.cyc.astro.st = "failed"
      THEN [M EXCEPT !.cyc.pc = "failed", !.app.error = "astro"]
    ELSE IF M.cyc.weather.st = "ok" /\ M.cyc.astro.st = "ok"
      THEN AfterDaily(IssueDaily(M, t), t)
    ELSE M

\* A cycle that issues all three fetches at once.
BeginCycleAllAtOnce(M, loc, t) ==
    LET w == StartFetch(M.mem, M.ls, "weather", loc, t)
        a == StartFetch(w.mem, w.ls, "astro", loc, t)
        d == StartFetch(a.mem, a.ls, "astro_daily", loc, t)
    IN  [M EXCEPT !.mem = d.mem, !.ls = d.ls,
                  !.cyc = [pc |-> "await_all", loc |-> loc, weather |-> w.fetch,
                           astro |-> a.fetch, daily |-> d.fetch]]

\* loadWeatherData up to `await Promise.all` (lines 195-206): both fetchers
\* are called, one after the other, before anything is awaited.
BeginCycle(M, loc, t) ==
    LET w == StartFetch(M.mem, M.ls, "weather", loc, t)
        a == StartFetch(w.mem, w.ls, "astro", loc, t)
    IN  [M EXCEPT !.mem = a.mem, !.ls = a.ls,
                  !.cyc = [pc |-> "await_all", loc |-> loc, weather |-> w.fetch,
                           astro |-> a.fetch, daily |-> IdleFetch]]

loadWeatherData(M, loc, t) == AfterJoin(BeginCycle(M, loc, t), t)

Machine(c) ==
    [mem |-> memoryCache, ls |-> localStorage, cyc |-> cycle[c],
     app |-> [conditions |-> conditions, score |-> score, forecast |-> forecast,
              error |-> error]]

\* The primed variables a handler leaves behind.
Becomes(c, M) ==
    /\ memoryCache' = M.mem
    /\ localStorage' = M.ls
    /\ cycle' = [cycle EXCEPT ![c] = M.cyc]
    /\ conditions' = M.app.conditions
    /\ score' = M.app.score
    /\ forecast' = M.app.forecast
    /\ error' = M.app.error

Free(c) ==
    /\ cycle[c].pc \in {"idle", "done", "failed"}
    /\ cycle[c].weather.st # "pending"
    /\ cycle[c].astro.st # "pending"
    /\ cycle[c].daily.st # "pending"

\* new SkyReadyApp(): the state of the constructor (lines 29-39).
InitApp == InitCache

\* loadInitialData: the last, the GPS or the default location, then load.
LoadInitialData(c, loc) ==
    /\ location = Null
    /\ Free(c)
    /\ location' = loc
    /\ \E M \in {loadWeatherData(Machine(c), loc, now)} : Becomes(c, M)
    /\ ret' = Call("loadWeatherData", <<c>>, Null, FALSE, FALSE)
    /\ UNCHANGED <<now, lastSet, fetched>>

\* refreshData: the refresh button.
RefreshData(c) ==
    /\ location # Null
    /\ Free(c)
    /\ \E M \in {loadWeatherData(Machine(c), location, now)} : Becomes(c, M)
    /\ ret' = Call("loadWeatherData", <<c>>, Null, FALSE, FALSE)
    /\ UNCHANGED <<now, lastSet, fetched, location>>

\* selectLocation: a favourite is picked.
SelectLocation(c, loc) ==
    /\ location # Null
    /\ Free(c)
    /\ location' = loc
    /\ \E M \in {loadWeatherData(Machine(c), loc, now)} : Becomes(c, M)
    /\ ret' = Call("loadWeatherData", <<c>>, Null, FALSE, FALSE)
    /\ UNCHANGED <<now, lastSet, fetched>>

\* History: the fetch cached under `key` now, in this page session.
Cached(key, data, full) ==
    /\ fetched' = [fetched EXCEPT ![key] =
            [kind |-> "set", data |-> data, t0 |-> now, session |-> TRUE]]
    /\ UNCHANGED lastSet

\* The weather request of cycle c fails (network error, non-2xx).
WeatherError(c) ==
    /\ cycle[c].weather.st = "pending"
    /\ \E M \in {AfterJoin([Machine(c) EXCEPT !.cyc.weather = WeatherFetchFailed], now)} :
          Becomes(c, M)
    /\ ret' = Call("weatherResponse", <<c>>, "fail", FALSE, FALSE)
    /\ UNCHANGED <<now, lastSet, fetched, location>>

\* The weather request of cycle c is answered with `body`.
WeatherResponse(c, body, full) ==
    /\ cycle[c].weather.st = "pending"
    /\ \E r \in CacheSet(memoryCache, localStorage, <<"weather", cycle[c].loc>>,
                         body, CACHE_TTL, now, full) :
          \E M \in {AfterJoin([Machine(c) EXCEPT
                                 !.mem = r.mem, !.ls = r.ls,
                                 !.cyc.weather = Fetch("ok", body, FALSE, FALSE)], now)} :
             Becomes(c, M)
    /\ Cached(<<"weather", cycle[c].loc>>, body, full)
    /\ ret' = Call("weatherResponse", <<c>>, "ok", FALSE, full)
    /\ UNCHANGED <<now, location>>

\* The seeing request of cycle c fails.
AstroError(c) ==
    /\ cycle[c].astro.st = "pending"
    /\ \E M \in {AfterJoin([Machine(c) EXCEPT !.cyc.astro = AstroFetchFailed], now)} :
          Becomes(c, M)
    /\ ret' = Call("astroResponse", <<c>>, "fail", FALSE, FALSE)
    /\ UNCHANGED <<now, lastSet, fetched, location>>

\* The seeing request of cycle c is answered with `body`.
AstroResponse(c, body, full) ==
    /\ cycle[c].astro.st = "pending"
    /\ \E r \in CacheSet(memoryCache, localStorage, <<"astro", cycle[c].loc>>,
                         ProcessedAstroId(body), CACHE_TTL, now, full) :
          \E M \in {AfterJoin([Machine(c) EXCEPT
                                 !.mem = r.mem, !.ls = r.ls,
                                 !.cyc.astro = Fetch("ok", ProcessedAstroId(body),
                                                     FALSE, FALSE)], now)} :
             Becomes(c, M)
    /\ Cached(<<"astro", cycle[c].loc>>, ProcessedAstroId(body), full)
    /\ ret' = Call("astroResponse", <<c>>, "ok", FALSE, full)
    /\ UNCHANGED <<now, location>>

\* The sun/moon request of cycle c fails.
DailyError(c) ==
    /\ cycle[c].daily.st = "pending"
    /\ \E M \in {AfterDaily([Machine(c) EXCEPT !.cyc.daily = DailyFetchFailed], now)} :
          Becomes(c, M)
    /\ ret' = Call("dailyResponse", <<c>>, "fail", FALSE, FALSE)
    /\ UNCHANGED <<now, lastSet, fetched, location>>

\* The sun/moon request of cycle c is answered with `body`.
DailyResponse(c, body, full) ==
    /\ cycle[c].daily.st = "pending"
    /\ \E r \in CacheSet(memoryCache, localStorage, <<"astro_daily", cycle[c].loc>>,
                         body, CACHE_TTL, now, full) :
          \E M \in {AfterDaily([Machine(c) EXCEPT
                                  !.mem = r.mem, !.ls = r.ls,
                                  !.cyc.daily = Fetch("ok", body, FALSE, FALSE)], now)} :
             Becomes(c, M)
    /\ Cached(<<"astro_daily", cycle[c].loc>>, body, full)
    /\ ret' = Call("dailyResponse", <<c>>, "ok", FALSE, full)
    /\ UNCHANGED <<now, location>>

\* An hour passes.
TickHour ==
    /\ now < MaxAppTime
    /\ now' = now + 1
    /\ ret' = Call("tick", <<>>, Null, FALSE, FALSE)
    /\ UNCHANGED <<memoryCache, localStorage, lastSet, location, conditions, score,
                   forecast, error, cycle, fetched>>

\* The page is reloaded: new SkyReadyApp and CacheService; requests in
\* flight are dropped; localStorage survives.
Reload ==
    /\ memoryCache' = EmptyMemory
    /\ fetched' = [k \in CacheKeys |-> [fetched[k] EXCEPT !.session = FALSE]]
    /\ location' = Null
    /\ conditions' = <<>>
    /\ score' = <<>>
    /\ forecast' = <<>>
    /\ error' = Null
    /\ cycle' = [c \in Cycles |-> IdleCycle]
    /\ ret' = Call("restart", <<>>, Null, FALSE, FALSE)
    /\ UNCHANGED <<now, localStorage, lastSet>>

NextApp ==
    \/ \E c \in Cycles, loc \in OpLocations : LoadInitialData(c, loc)
    \/ \E c \in Cycles : RefreshData(c)
    \/ \E c \in Cycles, loc \in OpLocations : SelectLocation(c, loc)
    \/ \E c \in Cycles : WeatherError(c)
    \/ \E c \in Cycles, body \in WeatherBodies, full \in BOOLEAN :
          WeatherResponse(c, body, full)
    \/ \E c \in Cycles : AstroError(c)
    \/ \E c \in Cycles, body \in AstroBodies, full \in BOOLEAN :
          AstroResponse(c, body, full)
    \/ \E c \in Cycles : DailyError(c)
    \/ \E c \in Cycles, body \in DailyBodies, full \in BOOLEAN :
          DailyResponse(c, body, full)
    \/ TickHour
    \/ Reload

SpecApp == InitApp /\ [][NextApp]_appVars

\* ------------------------------------------------------- cache properties
LastSetOf(k) == lastSet[k]

MemoryLive(ck) == memoryCache[ck].kind = "entry" /\ now < memoryCache[ck].expiry

DurableLive(ck) == localStorage[ck].kind = "json" /\ now < localStorage[ck].expiry

\* C1 (as claimed): after set(key, value, ttl) at t0 with no later
\* set/remove/clear of that key (and no restart), get(key) at time t returns
\* the value when t < t0 + ttl and null when t >= t0 + ttl.
C1_TtlReadback ==
    (ret.op = "get" /\ LastSetOf(ret.key).kind = "set") =>
        IF now < LastSetOf(ret.key).t0 + LastSetOf(ret.key).ttl
          THEN ret.value = LastSetOf(ret.key).data
          ELSE ret.value = Null

\* C2: set never throws and always leaves the new entry in the memory tier;
\* after a set whose durable write failed, a get in the same process
\* lifetime and before expiry returns the value just set.
C2_SetNeverSurfacesError ==
    /\ ret.op = "set" =>
          /\ ~ret.threw
          /\ memoryCache[_generateKey(ret.key)].kind = "entry"
          /\ memoryCache[_generateKey(ret.key)].data = ret.value
          /\ memoryCache[_generateKey(ret.key)].timestamp = now
          /\ memoryCache[_generateKey(ret.key)].expiry =
                now + LastSetOf(ret.key).ttl
    /\ ( /\ ret.op = "get"
         /\ LastSetOf(ret.key).kind = "set"
         /\ LastSetOf(ret.key).full
         /\ now < LastSetOf(ret.key).t0 + LastSetOf(ret.key).ttl )
       => (~ret.threw /\ ret.value = LastSetOf(ret.key).data)

\* A get that returns the value of a set whose durable write failed.
C2_Witness ==
    /\ ret.op = "get"
    /\ LastSetOf(ret.key).kind = "set"
    /\ LastSetOf(ret.key).full
    /\ now < LastSetOf(ret.key).t0 + LastSetOf(ret.key).ttl
    /\ ret.value = LastSetOf(ret.key).data
    /\ localStorage[_generateKey(ret.key)].kind = "none"

\* C3: get consults the memory tier first; an expired memory entry is
\* deleted and the lookup falls through; a live durable entry is promoted
\* into memory and returned; an expired durable entry is deleted; null is
\* returned exactly when neither tier holds a live entry.
C3_GetStep(k) ==
    LET ck == _generateKey(k)
        m == memoryCache[ck]
        d == localStorage[ck]
    IN  /\ \A o \in DOMAIN memoryCache : o # ck => memoryCache'[o] = memoryCache[o]
        /\ \A o \in DOMAIN localStorage : o # ck => localStorage'[o] = localStorage[o]
        /\ MemoryLive(ck) =>
              /\ ret'.value = m.data
              /\ memoryCache' = memoryCache
              /\ localStorage' = localStorage
        /\ (~MemoryLive(ck) /\ DurableLive(ck)) =>
              /\ ret'.value = d.data
              /\ memoryCache'[ck].kind = "entry"
              /\ memoryCache'[ck].data = d.data
              /\ memoryCache'[ck].expiry = d.expiry
              /\ localStorage' = localStorage
        /\ (~MemoryLive(ck) /\ ~DurableLive(ck)) =>
              /\ memoryCache'[ck].kind = "none"
              /\ d.kind = "json" => localStorage'[ck].kind = "none"
        /\ (ret'.value = Null) <=> (~MemoryLive(ck) /\ ~DurableLive(ck))

C3_GetTwoTier ==
    [][\A k \in CacheKeys : (ret'.op = "get" /\ ret'.key = k) => C3_GetStep(k)]_cacheVars

\* A get after a restart that found the value in the durable tier and
\* promoted it.
C3_Witness ==
    /\ ret.op = "get"
    /\ ret.value # Null
    /\ LastSetOf(ret.key).kind = "none"
    /\ memoryCache[_generateKey(ret.key)].kind = "entry"
    /\ memoryCache[_generateKey(ret.key)].data = ret.value

\* C4: a set whose durable write fails deletes the oldest half (rounded up)
\* of the durable cache entries, every deleted entry being at least as old
\* as every surviving one, and writes nothing to the durable tier.
CacheItems(ls) ==
    {sk \in DOMAIN ls : startsWithCachePrefix(sk) /\ ls[sk].kind # "none"}

C4_EvictionStep ==
    LET before == CacheItems(localStorage)
        after == CacheItems(localStorage')
        deleted == before \ after
    IN  /\ \A sk \in DOMAIN localStorage :
              localStorage'[sk] = localStorage[sk] \/ localStorage'[sk] = NoItem
        /\ after \subseteq before
        /\ 2 * Cardinality(deleted) >= Cardinality(before)
        /\ 2 * Cardinality(deleted) <= Cardinality(before) + 1
        /\ \A x \in deleted, y \in after :
              CleanupTimestamp(localStorage[x]) <= CleanupTimestamp(localStorage[y])

C4_EvictOldestHalf ==
    [][(ret'.op = "set" /\ ret'.full) => C4_EvictionStep]_cacheVars

\* A failed set after which an older entry of another key is gone from the
\* durable tier while the newer entry of the key just set survived there.
C4_Witness ==
    /\ ret.op = "set"
    /\ ret.full
    /\ localStorage[_generateKey(ret.key)].kind = "json"
    /\ localStorage[_generateKey(ret.key)].timestamp < now
    /\ \E k \in CacheKeys :
          /\ k # ret.key
          /\ LastSetOf(k).kind = "set"
          /\ ~LastSetOf(k).full
          /\ LastSetOf(k).t0 < localStorage[_generateKey(ret.key)].timestamp
          /\ localStorage[_generateKey(k)].kind = "none"

\* C25 (as claimed): get(key) never returns a value other than the one
\* passed to the most recent set for that key; a durable entry left over
\* from an earlier set is never served once a newer set has happened.
C25_NoStaleValue ==
    (ret.op = "get" /\ LastSetOf(ret.key).kind = "set" /\ ret.value # Null) =>
        ret.value = LastSetOf(ret.key).data

\* ------------------------------------------------- application properties
\* The step is a call of loadWeatherData by cycle c.
StartStep(c) == ret'.op = "loadWeatherData" /\ ret'.key = <<c>>

\* C5: an unparsable durable item is treated as absent and is never fatal:
\* get on it returns null without throwing, and a fetcher that finds one
\* (and no live memory entry) issues its request as on a cache miss.
C5_MalformedStep(c) ==
    LET unparsable(k) == /\ localStorage[_generateKey(k)] = Garbage
                         /\ ~MemoryLive(_generateKey(k))
    IN  /\ \A k \in CacheKeys : unparsable(k) =>
              /\ CacheGet(memoryCache, localStorage, k, now).value = Null
              /\ ~CacheGet(memoryCache, localStorage, k, now).threw
        /\ \A src \in {"weather", "astro"} :
              (StartStep(c) /\ unparsable(<<src, cycle'[c].loc>>)) =>
                  cycle'[c][src] = PendingFetch
        /\ ( /\ cycle[c].daily.st = "idle"
             /\ cycle'[c].daily.st # "idle"
             /\ unparsable(<<"astro_daily", cycle'[c].loc>>) ) =>
                  cycle'[c].daily = PendingFetch

C5_MalformedEntryIsAMiss ==
    [][\A c \in Cycles : C5_MalformedStep(c)]_appVars

\* A refresh that found an unparsable weather item and requested the feed.
C5_Witness ==
    \E c \in Cycles :
        /\ ret.op = "loadWeatherData"
        /\ localStorage[_generateKey(<<"weather", cycle[c].loc>>)] = Garbage
        /\ cycle[c].weather = PendingFetch

\* The fetcher of src answered a call from the cache, without a request.
ServedFromCache(c, src, data) == cycle'[c][src] = Fetch("ok", data, TRUE, FALSE)

\* C6 (as claimed): after a successful fetch of the weather (resp. seeing)
\* feed for a location, every later call for that location less than 3 hours
\* afterwards returns the cached result and issues no request; the first
\* call at or after 3 hours issues a request.
C6_AsClaimedStep(c, src) ==
    LET f == fetched[<<src, cycle'[c].loc>>]
    IN  (StartStep(c) /\ f.kind = "set") =>
            IF now < f.t0 + 3
              THEN ServedFromCache(c, src, f.data)
              ELSE cycle'[c][src] = PendingFetch

C6_SessionStep(c, src) ==
    LET k == <<src, cycle'[c].loc>>
        f == fetched[k]
    IN  (StartStep(c) /\ f.kind = "set") =>
            IF now >= f.t0 + 3 THEN cycle'[c][src] = PendingFetch
            ELSE IF f.session \/ localStorage[_generateKey(k)].kind = "json"
              THEN ServedFromCache(c, src, f.data)
              ELSE \/ ServedFromCache(c, src, f.data)
                   \/ cycle'[c][src] = PendingFetch

FailureStep(c, src) ==
    /\ ret'.op = src \o "Response"
    /\ ret'.key = <<c>>
    /\ ret'.value = "fail"

\* C7: a weather-feed failure is not recovered: the fetcher throws, nothing
\* is written to either cache tier, the cycle ends in its catch block and
\* conditions, score and forecast stay as they were.
C7_WeatherFailureStep(c) ==
    FailureStep(c, "weather") =>
        /\ cycle'[c].weather.st = "failed"
        /\ cycle'[c].pc = "failed"
        /\ cycle'[c].daily = cycle[c].daily
        /\ error' = "weather"
        /\ UNCHANGED <<memoryCache, localStorage, conditions, score, forecast>>

C7_WeatherFailureNotRecovered ==
    [][\A c \in Cycles : C7_WeatherFailureStep(c)]_appVars

\* A failed weather request of a refresh that leaves earlier conditions,
\* score and forecast on display.
C7_Witness ==
    \E c \in Cycles :
        /\ ret.op = "weatherResponse"
        /\ ret.value = "fail"
        /\ cycle[c].pc = "failed"
        /\ conditions # <<>>
        /\ score # <<>>
        /\ forecast # <<>>

\* The weather-derived fields of conditions c are those of hourly record h.
FromWeatherRecord(c, h) ==
    \A f \in {"timestamp", "cloudCover", "cloudCoverMin", "cloudCoverMax",
              "cloudCoverConfidence", "temperature", "humidity", "windSpeed",
              "windDirectionLabel"} : c[f] = h[f]

\* C8: a seeing-feed failure is recovered locally: the fetcher resolves with
\* the default data, the cycle proceeds to the sun/moon fetch as soon as the
\* weather is there, and the conditions of such a cycle carry seeing 3 and
\* transparency 3 with the labels for average, all weather-derived fields
\* being those of a record of the weather feed.
C8_SeeingFailureStep(c) ==
    /\ FailureStep(c, "astro") =>
          /\ cycle'[c].astro.st = "ok"
          /\ cycle'[c].astro.data = DefaultAstro
          /\ error' = error
          /\ cycle[c].pc = "await_all" => cycle'[c].pc # "failed"
          /\ cycle[c].weather.st = "ok" => cycle'[c].pc \in {"await_daily", "done"}
    /\ ( /\ cycle'[c].pc = "done"
         /\ cycle'[c].astro.netError
         /\ cycle'[c] # cycle[c] ) =>
          /\ Len(conditions') = 1
          /\ conditions'[1].seeing = 3
          /\ conditions'[1].transparency = 3
          /\ conditions'[1].seeingLabel = "Durchschnittlich"
          /\ conditions'[1].transparencyLabel = "Durchschnittlich"
          /\ \E i \in 1..Len(WeatherPayload(cycle'[c].weather.data).hourly) :
                FromWeatherRecord(conditions'[1],
                                  WeatherPayload(cycle'[c].weather.data).hourly[i])

C8_SeeingFailureRecovered ==
    [][\A c \in Cycles : C8_SeeingFailureStep(c)]_appVars

\* A finished refresh whose seeing request had failed.
C8_Witness ==
    \E c \in Cycles :
        /\ cycle[c].pc = "done"
        /\ cycle[c].astro.netError
        /\ cycle[c].weather.st = "ok"
        /\ ~cycle[c].weather.cached
        /\ Len(conditions) = 1
        /\ conditions[1].seeing = 3
        /\ conditions[1].cloudCover > 0

\* C9: the weather and the seeing fetch are both issued before either is
\* awaited; the sun/moon fetch is issued only after both have resolved; and
\* conditions, score and forecast are computed only when all three fetches
\* of the cycle have resolved.
C9_CycleOrder(c) ==
    /\ cycle[c].pc # "idle" =>
          (cycle[c].weather.st # "idle" /\ cycle[c].astro.st # "idle")
    /\ cycle[c].daily.st # "idle" =>
          (cycle[c].weather.st = "ok" /\ cycle[c].astro.st = "ok")
    /\ cycle[c].pc = "await_daily" => cycle[c].daily.st = "pending"
    /\ cycle[c].pc = "done" =>
          /\ cycle[c].weather.st = "ok"
          /\ cycle[c].astro.st = "ok"
          /\ cycle[c].daily.st = "ok"
          /\ \E t \in 0..now :
                conditions = ProcessedTable[cycle[c].weather.data, cycle[c].astro.data,
                                            cycle[c].daily.data, t].conditions

\* The step computes conditions, score or forecast anew.
Processes ==
    /\ <<conditions, score, forecast>>' # <<conditions, score, forecast>>
    /\ ret'.op # "restart"

C9_JoinThenDaily ==
    [][ /\ \A c \in Cycles : C9_CycleOrder(c)'
        /\ Processes => \E c \in Cycles :
              /\ cycle'[c].pc = "done"
              /\ cycle'[c].weather.st = "ok"
              /\ cycle'[c].astro.st = "ok"
              /\ cycle'[c].daily.st = "ok" ]_appVars

\* The sun/moon request is in flight, after both other fetches resolved
\* from their feeds, while the earlier refresh is still on display.
C9_Witness ==
    \E c \in Cycles :
        /\ cycle[c].pc = "await_daily"
        /\ cycle[c].daily = PendingFetch
        /\ cycle[c].weather.st = "ok"
        /\ ~cycle[c].weather.cached
        /\ cycle[c].astro.st = "ok"
        /\ ~cycle[c].astro.cached

\* C10 (as claimed): when the weather and seeing fetches succeeded and the
\* sun/moon fetch fails, the refresh still produces conditions and a score
\* from the weather and seeing data.
C10_DailyFailureTolerated ==
    \A c \in Cycles :
        ( /\ cycle[c].weather.st = "ok"
          /\ cycle[c].astro.st = "ok"
          /\ ~cycle[c].astro.netError
          /\ cycle[c].daily.st = "failed" ) =>
            /\ cycle[c].pc = "done"
            /\ conditions # <<>>
            /\ score # <<>>

\* ================================================ the scoring specification
\* Objects with an optional field: the field is absent or has one of values.
Optional(f, values) == {<<>>} \cup {f :> v : v \in values}

\* Conditions handed to calculateScore: every sub-score input at, inside and
\* outside its domain.
SubScoreConditions ==
    {a @@ b @@ c @@ d @@ e @@ f :
        a \in Optional("cloudCover", {-10, 0, 50, 100, 110}),
        b \in Optional("seeing", {-1, 0, 1, 3, 5, 6}),
        c \in Optional("transparency", {0, 2, 5, 9}),
        d \in Optional("moonIllumination", {-10, 0, 50, 100, 150, 400}),
        e \in Optional("isMoonUp", {TRUE, FALSE}),
        f \in Optional("humidity", {-5, 50, 60, 70, 80, 90, 120})}

\* Conditions around the thresholds of the warning rules.
WarningConditions ==
    {a @@ b @@ c @@ d @@ e @@ f @@ g :
        a \in Optional("humidity", {74, 75, 84, 85}),
        b \in Optional("temperature", {5, 6}),
        c \in Optional("windSpeed", {19, 20, 29, 30}),
        d \in Optional("cloudCover", {39, 40, 69, 70}),
        e \in Optional("isMoonUp", {TRUE, FALSE}),
        f \in Optional("moonIllumination", {69, 70}),
        g \in Optional("cloudCoverConfidence", {"low", "medium", "high"})}

\* The conditions of the end-to-end scenario.
ScenarioConditions ==
    [cloudCover |-> 80, humidity |-> 90, windSpeed |-> 35, seeing |-> 2,
     transparency |-> 2, isMoonUp |-> TRUE, moonIllumination |-> 90]

ScoreConditions == SubScoreConditions \cup WarningConditions \cup {ScenarioConditions}

\* The parts of the state the pure services neither read nor write.
serviceFrame == <<now, memoryCache, localStorage, lastSet, location, error, cycle, fetched>>

\* A fresh page over an empty cache, no refresh under way.
NoRefresh ==
    /\ now = 0
    /\ memoryCache = EmptyMemory
    /\ localStorage = [sk \in StorageKeys |->
                          IF sk = <<"skyready_settings">> THEN SettingsItem ELSE NoItem]
    /\ lastSet = [k \in CacheKeys |-> NoCall]
    /\ location = Null
    /\ error = Null
    /\ cycle = [c \in Cycles |-> IdleCycle]
    /\ fetched = [k \in CacheKeys |-> NoFetch]

\* A conditions object is at hand; nothing has been scored yet.
InitScore ==
    /\ NoRefresh
    /\ ret = Call("init", <<>>, Null, FALSE, FALSE)
    /\ conditions \in {<<c>> : c \in ScoreConditions}
    /\ score = <<>>
    /\ forecast = <<>>

\* this.state.score = scoreService.calculateScore(conditions, mode)
CalculateScore(mode) ==
    /\ score = <<>>
    /\ score' = <<calculateScore(conditions[1], mode)>>
    /\ ret' = Call("calculateScore", <<mode>>, Null, FALSE, FALSE)
    /\ UNCHANGED <<serviceFrame, conditions, forecast>>

NextScore == \E mode \in Modes : CalculateScore(mode)

SpecScore == InitScore /\ [][NextScore]_appVars

\* --------------------------------------------------- scoring properties
\* A score has been computed for the conditions at hand.
Scored == ret.op = "calculateScore"

\* C11 (as claimed): for every conditions input and every mode the
\* overallScore of calculateScore is an integer in [0,100].
C11_OverallScoreInRange ==
    Scored => score[1].overallScore \in 0..100

\* C12 (as claimed): for all inputs, out-of-domain ones included, each of
\* the five sub-scores lies in [0,100] (0..1000 in tenths).
C12_SubScoresClamped ==
    Scored => \A part \in {"cloud", "seeing", "transparency", "moon", "humidity"} :
                  score[1].breakdown[part].score \in 0..1000

\* C13: the five weights of each of the four modes sum to 1.0 (100
\* hundredths), and the weights in the breakdown of a score are those of the
\* requested mode.
C13_WeightsSumToOne ==
    /\ Modes = {"general", "deep-sky", "planetary", "milky-way"}
    /\ \A mode \in Modes :
          MODE_WEIGHTS[mode].cloudCover + MODE_WEIGHTS[mode].seeing
          + MODE_WEIGHTS[mode].transparency + MODE_WEIGHTS[mode].moonPhase
          + MODE_WEIGHTS[mode].humidity = 100
    /\ Scored =>
          /\ score[1].breakdown.cloud.weight + score[1].breakdown.seeing.weight
             + score[1].breakdown.transparency.weight + score[1].breakdown.moon.weight
             + score[1].breakdown.humidity.weight = 100
          /\ score[1].breakdown.cloud.weight = MODE_WEIGHTS[ret.key[1]].cloudCover
          /\ score[1].breakdown.seeing.weight = MODE_WEIGHTS[ret.key[1]].seeing
          /\ score[1].breakdown.transparency.weight = MODE_WEIGHTS[ret.key[1]].transparency
          /\ score[1].breakdown.moon.weight = MODE_WEIGHTS[ret.key[1]].moonPhase
          /\ score[1].breakdown.humidity.weight = MODE_WEIGHTS[ret.key[1]].humidity

\* A planetary score, whose breakdown weighs seeing at 0.40.
C13_Witness ==
    /\ Scored
    /\ ret.key = <<"planetary">>
    /\ score[1].breakdown.seeing.weight = 40
    /\ score[1].breakdown.cloud.weight = 35

\* The severity with which a warning of the given type occurs in w.
Severity(w, type) ==
    IF \E i \in 1..Len(w) : w[i].type = type
      THEN w[CHOOSE i \in 1..Len(w) : w[i].type = type].severity
      ELSE "none"

\* The fixed order of the five rules.
RuleOrder == <<"fog-risk", "high-wind", "clouds", "moon-bright", "low-confidence">>

Rank(type) == CHOOSE i \in 1..Len(RuleOrder) : RuleOrder[i] = type

AtLeast(c, f, limit) == Has(c, f) /\ c[f] >= limit

\* Every subset of the five rules fires for some conditions.
AnySubsetFires ==
    \A S \in SUBSET {RuleOrder[i] : i \in 1..Len(RuleOrder)} :
        \E c \in WarningConditions :
            {_generateWarnings(c)[i].type : i \in 1..Len(_generateWarnings(c))} = S

\* C14: the warnings are those of five independent rules in the order fog
\* risk, wind, clouds, bright moon, low confidence; each rule gives at most
\* one warning, its high branch excluding the medium one; any subset of the
\* rules may fire together.
C14_WarningRules ==
    /\ AnySubsetFires
    /\ Scored =>
        LET c == conditions[1]
            w == score[1].warnings
        IN  /\ \A i \in 1..Len(w) : w[i].type \in {RuleOrder[j] : j \in 1..Len(RuleOrder)}
            /\ \A i, j \in 1..Len(w) : i < j => Rank(w[i].type) < Rank(w[j].type)
            /\ Severity(w, "fog-risk") =
                  IF AtLeast(c, "humidity", 85) /\ Has(c, "temperature") /\ c.temperature <= 5
                    THEN "high"
                  ELSE IF AtLeast(c, "humidity", 75) THEN "medium" ELSE "none"
            /\ Severity(w, "high-wind") =
                  IF AtLeast(c, "windSpeed", 30) THEN "high"
                  ELSE IF AtLeast(c, "windSpeed", 20) THEN "medium" ELSE "none"
            /\ Severity(w, "clouds") =
                  IF AtLeast(c, "cloudCover", 70) THEN "high"
                  ELSE IF AtLeast(c, "cloudCover", 40) THEN "medium" ELSE "none"
            /\ Severity(w, "moon-bright") =
                  IF Has(c, "isMoonUp") /\ c.isMoonUp /\ AtLeast(c, "moonIllumination", 70)
                    THEN "medium" ELSE "none"
            /\ Severity(w, "low-confidence") =
                  IF Has(c, "cloudCoverConfidence") /\ c.cloudCoverConfidence = "low"
                    THEN "low" ELSE "none"

\* All five rules fire together, fog risk and wind at their medium branch.
C14_Witness ==
    /\ Scored
    /\ Len(score[1].warnings) = 5
    /\ score[1].warnings[1] = Warning("fog-risk", "medium")
    /\ score[1].warnings[2] = Warning("high-wind", "medium")
    /\ score[1].warnings[3] = Warning("clouds", "high")
    /\ score[1].warnings[5] = Warning("low-confidence", "low")
    /\ conditions[1].humidity = 85

\* The score of the end-to-end scenario in mode general.
ScenarioScored ==
    /\ Scored
    /\ conditions = <<ScenarioConditions>>
    /\ ret.key = <<"general">>

\* C15 (as claimed): the scenario yields the warnings clouds (high), wind
\* (high), fog risk (high) and bright moon (medium), an overallScore below
\* 30 and the rating poor.
C15_ScenarioAsClaimed ==
    ScenarioScored =>
        /\ Severity(score[1].warnings, "clouds") = "high"
        /\ Severity(score[1].warnings, "high-wind") = "high"
        /\ Severity(score[1].warnings, "fog-risk") = "high"
        /\ Severity(score[1].warnings, "moon-bright") = "medium"
        /\ score[1].overallScore < 30
        /\ score[1].scoreRating = "poor"

\* C15 (amended): with no temperature given the fog risk of the scenario is
\* medium; the other warnings, the overallScore below 30 (27) and the rating
\* poor are as claimed.
C15_ScenarioFogMedium ==
    ScenarioScored =>
        /\ score[1].warnings = <<Warning("fog-risk", "medium"), Warning("high-wind", "high"),
                                 Warning("clouds", "high"), Warning("moon-bright", "medium")>>
        /\ score[1].overallScore = 27
        /\ score[1].overallScore < 30
        /\ score[1].scoreRating = "poor"

C15_Witness ==
    /\ ScenarioScored
    /\ Severity(score[1].warnings, "fog-risk") = "medium"
    /\ score[1].scoreRating = "poor"

\* ======================================= the seeing-feed specification
MaxSeries == 3        \* longest dataseries handed to the aligner
MaxTimepoint == 3     \* timepoints of its entries are 0..MaxTimepoint

\* Seeing and transparency codes of the feed: missing, zero, 1..8 and
\* out of range.
FeedCodes == {-1, 0, 1, 2, 3, 4, 5, 6, 7, 8, 9}

\* Bodies of one entry, for the conversions.
CodeBodies ==
    {[init |-> 0, dataseries |-> <<[timepoint |-> 0] @@ a @@ b>>] :
        a \in Optional("seeing", FeedCodes),
        b \in Optional("transparency", FeedCodes)}

\* Bodies for the aligner: up to MaxSeries entries in any order of time,
\* equal times included; the seeing code tells the entries apart.
AlignBodies ==
    {[init |-> 0,
      dataseries |-> [i \in 1..Len(tps) |->
                         [timepoint |-> tps[i], seeing |-> 2 * i - 1, transparency |-> 8]]] :
        tps \in UNION {[1..n -> 0..MaxTimepoint] : n \in 0..MaxSeries}}

\* An object without an hourly series.
SeriesMissing == [isDefault |-> TRUE]

\* A response body of the seeing feed has arrived.
InitAstro ==
    /\ NoRefresh
    /\ ret \in {Call("response", <<data>>, Null, FALSE, FALSE) :
                  data \in CodeBodies \cup AlignBodies \cup {[init |-> 0]}}
    /\ conditions = <<>>
    /\ score = <<>>
    /\ forecast = <<>>

\* const processed = this._processAstroData(data)
ProcessAstroData ==
    /\ ret.op = "response"
    /\ ret' = Call("_processAstroData", ret.key, _processAstroData(ret.key[1]), FALSE, FALSE)
    /\ UNCHANGED <<serviceFrame, conditions, score, forecast>>

\* this.findMatchingAstroData(astroData, targetTime), on the processed
\* data or on an object without a series.
FindMatchingAstroData(missing, targetTime) ==
    /\ ret.op = "_processAstroData"
    /\ ret.key[1] \in AlignBodies \cup {[init |-> 0]}
    /\ LET astroData == IF missing THEN SeriesMissing ELSE ret.value
       IN  ret' = Call("findMatchingAstroData", <<astroData, targetTime>>,
                       findMatchingAstroData(astroData, targetTime), FALSE, FALSE)
    /\ UNCHANGED <<serviceFrame, conditions, score, forecast>>

NextAstro ==
    \/ ProcessAstroData
    \/ \E missing \in BOOLEAN, targetTime \in -1..(MaxTimepoint + 1) :
          FindMatchingAstroData(missing, targetTime)

SpecAstro == InitAstro /\ [][NextAstro]_appVars

\* ------------------------------------------------ seeing-feed properties
\* The table of the seeing conversion, by source code 1..8.
SeeingTable == <<5, 5, 4, 4, 3, 2, 1, 1>>

C17_ClosestFirst ==
    ret.op = "findMatchingAstroData" =>
        LET astroData == ret.key[1]
            targetTime == ret.key[2]
            dist(i) == Abs(astroData.hourly[i].timestamp - targetTime)
        IN  IF ~Has(astroData, "hourly") THEN ret.value = <<>>
            ELSE IF Len(astroData.hourly) = 0 THEN ret.value = <<>>
            ELSE \E i \in 1..Len(astroData.hourly) :
                    /\ ret.value = <<astroData.hourly[i]>>
                    /\ \A j \in 1..Len(astroData.hourly) : dist(i) <= dist(j)
                    /\ \A j \in 1..(i - 1) : dist(j) > dist(i)

\* Two entries at the same distance on either side of the target, the
\* later one first in the series: the first is returned.
C17_Witness ==
    /\ ret.op = "findMatchingAstroData"
    /\ Has(ret.key[1], "hourly")
    /\ Len(ret.key[1].hourly) = 3
    /\ ret.key[1].hourly[1].timestamp = ret.key[2] + 1
    /\ ret.key[1].hourly[2].timestamp = ret.key[2] - 1
    /\ ret.key[1].hourly[3].timestamp = ret.key[2] + 1
    /\ ret.value = <<ret.key[1].hourly[1]>>

\* ================================================ the forecast specification
\* buildForecastData applied to a processed weather series, the seeing data
\* and the daily data of one refresh.
MaxHours == 5         \* longest hourly weather series handed to the forecast

\* The timestamp of local hour `hour` on local date `date`.
At(date, hour) == 24 * date + hour - ClockOriginHour

\* Hours a series is drawn from: six local dates, one of them without a
\* night hour, and hours on either side of both ends of the night window.
ForecastHours ==
    {At(0, 18), At(0, 23), At(1, 0), At(1, 3), At(1, 6), At(1, 7), At(2, 12),
     At(3, 17), At(3, 18), At(4, 3), At(5, 19)}

RECURSIVE Ascending(_)
Ascending(S) ==
    IF S = {} THEN <<>>
    ELSE LET least == CHOOSE x \in S : \A y \in S : x <= y
         IN  <<least>> \o Ascending(S \ {least})

\* How the sky develops along the series.
Trends == {"steady", "clearing", "changeable"}

\* The i-th record of a response body of the weather feed.
TrendHour(time, trend, i) ==
    LET cc == IF trend = "steady" THEN 50
              ELSE IF trend = "clearing" THEN Max2(0, 100 - 50 * (i - 1))
              ELSE IF i = 1 THEN 0 ELSE IF i = 3 THEN 100 ELSE 50
        hum == IF trend = "steady" THEN 65
               ELSE IF trend = "clearing" THEN 40
               ELSE IF i = 1 THEN 40 ELSE IF i = 3 THEN 95 ELSE 65
    IN  RawHour(time, cc, 0, cc, IF i % 2 = 1 THEN 100 ELSE cc, 4, hum, 10, 180)

\* Processed weather series in ascending time order.
ForecastWeather ==
    {_processWeatherData([hourly |-> [i \in 1..Len(times) |->
                                         TrendHour(times[i], trend, i)]]) :
        times \in {Ascending(S) : S \in {T \in SUBSET ForecastHours :
                                             Cardinality(T) <= MaxHours}},
        trend \in Trends}

\* Seeing data: a processed series that is excellent at 18:00 and bad at
\* 23:00 of the first date, excellent at 06:00 of the second and average
\* three days on, or the default data without entries.
ForecastAstro ==
    {_processAstroData([init |-> At(0, 18),
                        dataseries |-> <<[timepoint |-> 0, seeing |-> 1, transparency |-> 8],
                                         [timepoint |-> 5, seeing |-> 8, transparency |-> 1],
                                         [timepoint |-> 12, seeing |-> 1, transparency |-> 8],
                                         [timepoint |-> 72, seeing |-> 4, transparency |-> 4]>>]),
     _getDefaultAstroData}

\* Daily data: moon phases for four days (new moon first), for two days, or
\* for none.
ForecastDaily ==
    {[sunrise |-> <<11, 35>>, sunset |-> <<-3, 21>>, moonPhases |-> phases] :
        phases \in {<<[illumination |-> 0], [illumination |-> 100],
                      [illumination |-> 37], [illumination |-> 1]>>,
                    <<[illumination |-> 1], [illumination |-> 50]>>,
                    <<>>}}

\* processWeatherData holds the three results and is about to build the
\* forecast.
InitForecast ==
    /\ NoRefresh
    /\ ret \in {Call("processWeatherData", <<weatherData, astroData, astronomicalData>>,
                     Null, FALSE, FALSE) :
                  weatherData \in ForecastWeather, astroData \in ForecastAstro,
                  astronomicalData \in ForecastDaily}
    /\ conditions = <<>>
    /\ score = <<>>
    /\ forecast = <<>>

\* this.buildForecastData(weatherData, astroData, astronomicalData), with
\* settings.photographyMode = mode
BuildForecastData(mode) ==
    /\ ret.op = "processWeatherData"
    /\ forecast' = buildForecastData(ret.key[1], ret.key[2], ret.key[3], mode)
    /\ ret' = Call("buildForecastData", ret.key, mode, FALSE, FALSE)
    /\ UNCHANGED <<serviceFrame, conditions, score>>

NextForecast == \E mode \in Modes : BuildForecastData(mode)

SpecForecast == InitForecast /\ [][NextForecast]_appVars

\* --------------------------------------------------- forecast properties
\* The forecast has been built from the series in ret.key[1].
Built == ret.op = "buildForecastData"

\* Positions of the series whose local date is `date`.
Bucket(date) ==
    {i \in 1..Len(ret.key[1].hourly) : LocalDate(ret.key[1].hourly[i].timestamp) = date}

SeriesDates == {LocalDate(ret.key[1].hourly[i].timestamp) : i \in 1..Len(ret.key[1].hourly)}

\* Position at which `date` is first encountered in the series.
FirstAt(date) == CHOOSE i \in Bucket(date) : \A j \in Bucket(date) : i <= j

\* C18: the forecast has at most 4 entries, one for each of the first 4
\* distinct local dates encountered in the hourly series, in that order,
\* and for a series in ascending time order the dates strictly increase.
C18_FirstFourDates ==
    Built =>
        /\ Len(forecast) <= 4
        /\ Len(forecast) = Min2(4, Cardinality(SeriesDates))
        /\ \A k \in 1..Len(forecast) :
              /\ forecast[k].date \in SeriesDates
              /\ Cardinality({d \in SeriesDates :
                                 FirstAt(d) < FirstAt(forecast[k].date)}) = k - 1
        /\ \A k \in 1..(Len(forecast) - 1) : forecast[k].date < forecast[k + 1].date

\* A series over five dates gives a forecast of four days.
C18_Witness ==
    /\ Built
    /\ Cardinality(SeriesDates) = 5
    /\ Len(forecast) = 4
    /\ forecast[4].date = 3

\* Positions of the bucket of `date` inside the night window.
NightOf(date) ==
    {i \in Bucket(date) : \/ getHours(ret.key[1].hourly[i].timestamp) >= 18
                          \/ getHours(ret.key[1].hourly[i].timestamp) <= 6}

RatingOf(points) ==
    IF points >= 90 THEN "perfect"
    ELSE IF points >= 70 THEN "very-good"
    ELSE IF points >= 50 THEN "good"
    ELSE IF points >= 30 THEN "moderate"
    ELSE "poor"

\* C19: the scored hours of a forecast day are exactly the hours of its
\* bucket with local hour >= 18 or <= 6, in series order; the day's
\* overallScore is the mean of their scores rounded to the nearest integer
\* (halves up) and its rating the threshold rating of that value; a day
\* without such an hour has overallScore 50, rating 'good', no hourlyScores
\* and no bestHour.
C19_NightHoursScored ==
    Built =>
        \A k \in 1..Len(forecast) :
            LET day == forecast[k]
                night == NightOf(day.date)
                n == Len(day.hourlyScores)
                total == SeqSum([j \in 1..n |-> day.hourlyScores[j].score])
            IN  /\ n = Cardinality(night)
                /\ {day.hourlyScores[j].timestamp : j \in 1..n}
                      = {ret.key[1].hourly[i].timestamp : i \in night}
                /\ \A j \in 1..(n - 1) :
                      day.hourlyScores[j].timestamp < day.hourlyScores[j + 1].timestamp
                /\ n > 0 =>
                      /\ n * (2 * day.overallScore - 1) <= 2 * total
                      /\ 2 * total < n * (2 * day.overallScore + 1)
                      /\ day.scoreRating = RatingOf(day.overallScore)
                /\ n = 0 =>
                      /\ day.overallScore = 50
                      /\ day.scoreRating = "good"
                      /\ day.hourlyScores = <<>>
                      /\ day.bestHour = <<>>

\* A day with hours at 06:00 and 07:00 of which only the first is scored,
\* whose mean is rounded up from a half and rated other than 'good', next
\* to a day without a night hour.
C19_Witness ==
    /\ Built
    /\ \E k \in 1..Len(forecast) :
          /\ forecast[k].date = 1
          /\ \E i \in Bucket(1) : getHours(ret.key[1].hourly[i].timestamp) = 7
          /\ Len(forecast[k].hourlyScores) = 2
          /\ getHours(forecast[k].hourlyScores[2].timestamp) = 6
          /\ (forecast[k].hourlyScores[1].score + forecast[k].hourlyScores[2].score) % 2 = 1
          /\ forecast[k].scoreRating # "good"
    /\ \E k \in 1..Len(forecast) :
          /\ forecast[k].date = 2
          /\ forecast[k].hourlyScores = <<>>
          /\ forecast[k].overallScore = 50

\* The weather record behind an hourlyScores entry.
HourAt(timestamp) ==
    ret.key[1].hourly[CHOOSE i \in 1..Len(ret.key[1].hourly) :
                         ret.key[1].hourly[i].timestamp = timestamp]

\* C20: every hourlyScores entry has 0 <= scoreMin <= score <= scoreMax
\* <= 100 with scoreMin = max(0, score - uncertainty) and scoreMax =
\* min(100, score + uncertainty), and the day's bestHour is the timestamp of
\* the first entry whose score is the greatest of the day.
C20_HourlyBandAndBestHour ==
    Built =>
        \A k \in 1..Len(forecast) :
            LET entries == forecast[k].hourlyScores
            IN  /\ \A j \in 1..Len(entries) :
                      LET e == entries[j]
                          uncertainty == _calculateUncertainty(HourAt(e.timestamp))
                      IN  /\ 0 <= e.scoreMin
                          /\ e.scoreMin <= e.score
                          /\ e.score <= e.scoreMax
                          /\ e.scoreMax <= 100
                          /\ e.scoreMin = Max2(0, e.score - uncertainty)
                          /\ e.scoreMax = Min2(100, e.score + uncertainty)
                /\ Len(entries) > 0 =>
                      \E j \in 1..Len(entries) :
                          /\ forecast[k].bestHour = <<entries[j].timestamp>>
                          /\ \A i \in 1..Len(entries) : entries[i].score <= entries[j].score
                          /\ \A i \in 1..(j - 1) : entries[i].score < entries[j].score

\* A day whose greatest score occurs twice, the first of the two being the
\* bestHour, in a forecast with a band cut off at 100 and one cut off at 0.
C20_Witness ==
    /\ Built
    /\ \E k \in 1..Len(forecast) :
          LET entries == forecast[k].hourlyScores
          IN  /\ Len(entries) = 3
              /\ entries[1].score < entries[2].score
              /\ entries[2].score = entries[3].score
              /\ forecast[k].bestHour = <<entries[2].timestamp>>
    /\ \E k \in 1..Len(forecast) : \E j \in 1..Len(forecast[k].hourlyScores) :
          LET e == forecast[k].hourlyScores[j]
          IN  e.scoreMax = 100 /\ e.score + _calculateUncertainty(HourAt(e.timestamp)) > 100
    /\ \E k \in 1..Len(forecast) : \E j \in 1..Len(forecast[k].hourlyScores) :
          LET e == forecast[k].hourlyScores[j]
          IN  e.scoreMin = 0 /\ e.score - _calculateUncertainty(HourAt(e.timestamp)) < 0

\* The score of the night hour behind an hourlyScores entry, computed with
\* the moon illumination of day k of the daily data and the moon risen.
ScoreWithMoonOfDay(timestamp, k) ==
    calculateScore([NightConditions(HourAt(timestamp), ret.key[2],
                                    ret.key[3].moonPhases, k)
                       EXCEPT !.moonIllumination = ret.key[3].moonPhases[k].illumination,
                              !.isMoonUp = TRUE],
                   ret.value).overallScore

\* C23 (as claimed): every night-hour score of forecast day i is computed
\* with the moon illumination of day i of the daily moon data, for every
\* illumination in [0,100] including 0 at new moon, and with the moon
\* treated as risen.
C23_MoonOfTheDay ==
    Built =>
        \A k \in 1..Len(forecast) :
            k <= Len(ret.key[3].moonPhases) =>
                \A j \in 1..Len(forecast[k].hourlyScores) :
                    forecast[k].hourlyScores[j].score
                        = ScoreWithMoonOfDay(forecast[k].hourlyScores[j].timestamp, k)

\* ======================================= favourites (services/storage.js)
\* Coordinates are integers in units of 0.0001 degree.
STORAGE_KEYS ==
    [SETTINGS |-> <<"skyready_settings">>,
     FAVORITES |-> <<"skyready_favorites">>,
     LAST_LOCATION |-> <<"skyready_last_location">>]

AppStorageKeys == {STORAGE_KEYS[f] : f \in DOMAIN STORAGE_KEYS}

\* JSON.stringify(value) as a stored item that parses back to value.
StoredJSON(value) == [kind |-> "json", data |-> value, expiry |-> 0, timestamp |-> 0]

getFavorites(ls) ==
    IF ls[STORAGE_KEYS.FAVORITES].kind = "json" THEN ls[STORAGE_KEYS.FAVORITES].data
    ELSE <<>>

\* Math.abs(f.latitude - lat) < 0.001 && Math.abs(f.longitude - lon) < 0.001
Near(f, lat, lon) ==
    Abs(f.latitude - lat) < 10 /\ Abs(f.longitude - lon) < 10

\* isFavorite: <<>> for null, else <<the first favourite near (lat, lon)>>.
isFavorite(ls, lat, lon) ==
    LET favorites == getFavorites(ls)
        hits == {i \in 1..Len(favorites) : Near(favorites[i], lat, lon)}
    IN  IF hits = {} THEN <<>>
        ELSE <<favorites[CHOOSE i \in hits : \A j \in hits : i <= j]>>

\* `fav_${Date.now()}_${random}`: an id that no stored favourite carries.
NewId(favorites) ==
    1 + (IF Len(favorites) = 0 THEN 0
         ELSE LET ids == {favorites[i].id : i \in 1..Len(favorites)}
              IN  CHOOSE x \in ids : \A y \in ids : y <= x)

\* addFavorite that refuses only a list of more than 5.
addFavoriteLimitAfter(ls, place, full) ==
    LET favorites == getFavorites(ls)
    IN  IF Len(favorites) > 5 THEN [value |-> FALSE, ls |-> ls]
        ELSE IF \E i \in 1..Len(favorites) :
                   Near(favorites[i], place.latitude, place.longitude)
          THEN [value |-> FALSE, ls |-> ls]
        ELSE IF full THEN [value |-> FALSE, ls |-> ls]
        ELSE [value |-> TRUE,
              ls |-> [ls EXCEPT ![STORAGE_KEYS.FAVORITES] =
                         StoredJSON(Append(favorites,
                             [id |-> NewId(favorites), isFavorite |-> TRUE] @@ place))]]

\* addFavorite(location); `full` says whether localStorage.setItem throws.
addFavorite(ls, place, full) ==
    LET favorites == getFavorites(ls)
    IN  IF Len(favorites) >= 5 THEN [value |-> FALSE, ls |-> ls]
        ELSE IF \E i \in 1..Len(favorites) :
                   Near(favorites[i], place.latitude, place.longitude)
          THEN [value |-> FALSE, ls |-> ls]
        ELSE IF full THEN [value |-> FALSE, ls |-> ls]
        ELSE [value |-> TRUE,
              ls |-> [ls EXCEPT ![STORAGE_KEYS.FAVORITES] =
                         StoredJSON(Append(favorites,
                             [id |-> NewId(favorites), isFavorite |-> TRUE] @@ place))]]

removeFavorite(ls, id, full) ==
    LET filtered == SelectSeq(getFavorites(ls), LAMBDA f : f.id # id)
    IN  IF full THEN [value |-> FALSE, ls |-> ls]
        ELSE [value |-> TRUE,
              ls |-> [ls EXCEPT ![STORAGE_KEYS.FAVORITES] = StoredJSON(filtered)]]

\* updateFavorite(id, updates): { ...favorites[index], ...updates }
updateFavorite(ls, id, updates, full) ==
    LET favorites == getFavorites(ls)
        found == {i \in 1..Len(favorites) : favorites[i].id = id}
    IN  IF found = {} THEN [value |-> FALSE, ls |-> ls]
        ELSE IF full THEN [value |-> FALSE, ls |-> ls]
        ELSE LET index == CHOOSE i \in found : \A j \in found : i <= j
             IN  [value |-> TRUE,
                  ls |-> [ls EXCEPT ![STORAGE_KEYS.FAVORITES] =
                             StoredJSON([favorites EXCEPT
                                            ![index] = updates @@ favorites[index]])]]

\* toggleCurrentFavorite for state.location = loc (lines 528-556); the
\* value is what addFavorite or removeFavorite returned.
toggleCurrentFavorite(ls, loc, full) ==
    LET existing == isFavorite(ls, loc.latitude, loc.longitude)
    IN  IF Len(existing) > 0 THEN removeFavorite(ls, existing[1].id, full)
        ELSE addFavorite(ls, [name |-> loc.name, latitude |-> loc.latitude,
                              longitude |-> loc.longitude], full)

\* ----------------------------------------------- the favourites specification
MaxFavoriteId == 6    \* ids handed out are 1..MaxFavoriteId

Place(name, lat, lon) == [name |-> name, latitude |-> lat, longitude |-> lon]

\* Six places far from each other.
FarPlaces ==
    <<Place("A", 0, 0), Place("B", 1000, 0), Place("C", 2000, 0), Place("D", 3000, 0),
      Place("E", 4000, 0), Place("F", 5000, 0)>>

\* Places next to the first: closer than 0.001 degree in both coordinates,
\* and closer in latitude but exactly 0.001 degree away in longitude.
NearPlaces == {Place("A1", 9, -9), Place("A2", 9, 10)}

\* The places a call adds: the first place, a place next to it, or the
\* first of the far places that is not stored yet.
Places(favorites) ==
    LET free == {n \in 1..Len(FarPlaces) :
                    \A i \in 1..Len(favorites) :
                        ~Near(favorites[i], FarPlaces[n].latitude, FarPlaces[n].longitude)}
    IN  {FarPlaces[1]} \cup NearPlaces
        \cup {FarPlaces[n] : n \in {m \in free : \A k \in free : m <= k}}

\* The `updates` argument of updateFavorite: new coordinates.
Updates == {[latitude |-> 0, longitude |-> 0]}

\* The ids updateFavorite is called with: the two oldest.
UpdatedIds == {1, 2}

favUnchanged == <<now, memoryCache, lastSet, location, conditions, score, forecast,
                  error, cycle, fetched>>

\* A first visit: nothing stored but the settings; state.location is null
\* (<<>>) or a place.
InitFavorites ==
    /\ now = 0
    /\ memoryCache = EmptyMemory
    /\ localStorage = [sk \in AppStorageKeys |->
                          IF sk = STORAGE_KEYS.SETTINGS THEN SettingsItem ELSE NoItem]
    /\ ret = Call("init", <<>>, Null, FALSE, FALSE)
    /\ lastSet = [k \in CacheKeys |-> NoCall]
    /\ location \in {<<>>, <<Place("A1", 9, -9)>>}
    /\ conditions = <<>>
    /\ score = <<>>
    /\ forecast = <<>>
    /\ error = Null
    /\ cycle = [c \in Cycles |-> IdleCycle]
    /\ fetched = [k \in CacheKeys |-> NoFetch]

AddFavorite(place, full) ==
    /\ NewId(getFavorites(localStorage)) <= MaxFavoriteId
    /\ LET r == addFavorite(localStorage, place, full)
       IN  /\ localStorage' = r.ls
           /\ ret' = Call("addFavorite", <<place>>, r.value, FALSE, full)
    /\ UNCHANGED favUnchanged

RemoveFavorite(id, full) ==
    /\ LET r == removeFavorite(localStorage, id, full)
       IN  /\ localStorage' = r.ls
           /\ ret' = Call("removeFavorite", <<id>>, r.value, FALSE, full)
    /\ UNCHANGED favUnchanged

UpdateFavorite(id, updates, full) ==
    /\ LET r == updateFavorite(localStorage, id, updates, full)
       IN  /\ localStorage' = r.ls
           /\ ret' = Call("updateFavorite", <<id, updates>>, r.value, FALSE, full)
    /\ UNCHANGED favUnchanged

ToggleCurrentFavorite(full) ==
    /\ location # <<>>
    /\ NewId(getFavorites(localStorage)) <= MaxFavoriteId
    /\ LET r == toggleCurrentFavorite(localStorage, location[1], full)
       IN  /\ localStorage' = r.ls
           /\ ret' = Call("toggleCurrentFavorite", <<>>, r.value, FALSE, full)
    /\ UNCHANGED favUnchanged

NextFavorites ==
    \/ \E place \in Places(getFavorites(localStorage)), full \in BOOLEAN :
          AddFavorite(place, full)
    \* rewriting a list that is no longer than the stored one stays in quota
    \/ \E id \in 1..MaxFavoriteId : RemoveFavorite(id, FALSE)
    \/ \E id \in UpdatedIds, updates \in Updates : UpdateFavorite(id, updates, FALSE)
    \/ \E full \in BOOLEAN : ToggleCurrentFavorite(full)

SpecFavorites == InitFavorites /\ [][NextFavorites]_appVars

\* ------------------------------------------------- favourites properties
Favorites == getFavorites(localStorage)

\* C21: the stored favourites list never holds more than 5 entries, and
\* addFavorite on a list of 5 returns false and leaves the list unchanged.
C21_AddOnFullStep ==
    /\ Len(getFavorites(localStorage')) <= 5
    /\ (ret'.op = "addFavorite" /\ Len(Favorites) = 5) =>
          /\ ret'.value = FALSE
          /\ getFavorites(localStorage') = Favorites

C21_AtMostFiveFavorites == Len(Favorites) <= 5 /\ [][C21_AddOnFullStep]_appVars

\* A sixth place, far from the five stored ones, has just been refused.
C21_Witness ==
    /\ ret.op = "addFavorite"
    /\ Len(Favorites) = 5
    /\ ret.value = FALSE
    /\ ~ret.full
    /\ \A i \in 1..5 : ~Near(Favorites[i], ret.key[1].latitude, ret.key[1].longitude)

\* Two favourites closer than 0.001 degree in both coordinates, or two
\* with the same id.
Clash(f, g) == Near(f, g.latitude, g.longitude) \/ f.id = g.id

\* C30 (as claimed): after any sequence of addFavorite, removeFavorite and
\* updateFavorite calls no two stored favourites lie within 0.001 degree of
\* each other in both coordinates and all ids are distinct; addFavorite of
\* such a duplicate returns false and leaves the list unchanged.
C30_DuplicateStep ==
    /\ \A i, j \in 1..Len(getFavorites(localStorage')) :
          i # j => ~Clash(getFavorites(localStorage')[i], getFavorites(localStorage')[j])
    /\ ( /\ ret'.op = "addFavorite"
         /\ \E i \in 1..Len(Favorites) :
               Near(Favorites[i], ret'.key[1].latitude, ret'.key[1].longitude) )
       => (ret'.value = FALSE /\ getFavorites(localStorage') = Favorites)

C30_NoDuplicateFavorites == [][C30_DuplicateStep]_appVars

\* ============================================ the weather-feed specification
\* _processWeatherData applied to a response body, and findCurrentHourIndex
\* applied to the processed series at Date.now() = 0.
MaxOffset == 2        \* timestamps of a series are -MaxOffset..MaxOffset hours

\* Cloud layers around the thresholds of the confidence label.
LayerValues == {0, 19, 20, 39, 40, 100}

\* Bodies of one hour, for the normalisation of the cloud cover.
LayerBodies ==
    {[hourly |-> <<RawHour(0, cc, lo, mi, hi, 8, 40, 5, 90)>>] :
        cc \in {0, 50, 100}, lo \in LayerValues, mi \in LayerValues, hi \in LayerValues}

\* Bodies with a series in ascending time order: all of it in the past, all
\* of it ahead, or around now.
SeriesBodies ==
    {[hourly |-> [i \in 1..Len(times) |->
                     RawHour(times[i], 10 * i, 0, 10 * i, 0, 8, 40, 5, 90)]] :
        times \in {Ascending(S) : S \in SUBSET (-MaxOffset..MaxOffset)}}

\* A response body of the weather feed has arrived.
InitWeather ==
    /\ NoRefresh
    /\ ret \in {Call("response", <<data>>, Null, FALSE, FALSE) :
                  data \in LayerBodies \cup SeriesBodies}
    /\ conditions = <<>>
    /\ score = <<>>
    /\ forecast = <<>>

\* const processed = this._processWeatherData(data)
ProcessWeatherData ==
    /\ ret.op = "response"
    /\ ret' = Call("_processWeatherData", ret.key, _processWeatherData(ret.key[1]),
                   FALSE, FALSE)
    /\ UNCHANGED <<serviceFrame, conditions, score, forecast>>

\* const currentHourIndex = this.findCurrentHourIndex(weatherData.hourly)
FindCurrentHourIndex ==
    /\ ret.op = "_processWeatherData"
    /\ ret.key[1] \in SeriesBodies
    /\ ret' = Call("findCurrentHourIndex", <<ret.value.hourly>>,
                   findCurrentHourIndex(ret.value.hourly, now), FALSE, FALSE)
    /\ UNCHANGED <<serviceFrame, conditions, score, forecast>>

NextWeather == ProcessWeatherData \/ FindCurrentHourIndex

SpecWeather == InitWeather /\ [][NextWeather]_appVars

\* ------------------------------------------------ weather-feed properties
\* The label for a spread given in tenths of a percent.
ConfidenceOf(spread) ==
    IF spread < 200 THEN "high" ELSE IF spread < 400 THEN "medium" ELSE "low"

C29_LatestNotAfterNow ==
    (ret.op = "findCurrentHourIndex" /\ Len(ret.key[1]) > 0) =>
        LET hourly == ret.key[1]
            notAfter == {i \in 1..Len(hourly) : hourly[i].timestamp <= now}
        IN  ret.value = IF notAfter = {} THEN 1
                        ELSE CHOOSE i \in notAfter : \A j \in notAfter : j <= i

\* ============================================ the settings specification
\* updateSettings (app.js:604-621) on a page that has, or has not yet,
\* processed the data of a refresh.  state.settings is what getSettings
\* reads from the store: the constructor loads it from there and
\* updateSettings assigns what storageService.updateSettings returns.
getSettings(ls) ==
    IF ls[STORAGE_KEYS.SETTINGS].kind = "json"
      THEN ls[STORAGE_KEYS.SETTINGS].data @@ DEFAULT_SETTINGS
      ELSE DEFAULT_SETTINGS

\* storageService.updateSettings(updates): the settings it returns and the
\* store it leaves; `full` says whether localStorage.setItem throws.
updateSettings(ls, updates, full) ==
    IF full THEN [value |-> getSettings(ls), ls |-> ls]
    ELSE [value |-> updates @@ getSettings(ls),
          ls |-> [ls EXCEPT ![STORAGE_KEYS.SETTINGS] =
                     StoredJSON(updates @@ getSettings(ls))]]

\* The `updates` argument: a photography mode, or the detail-panel flag.
SettingsUpdates ==
    {[photographyMode |-> mode] : mode \in Modes} \cup {[showDetailedParams |-> TRUE]}

\* The three results of a refresh are at hand; the stored settings are
\* absent or hold a mode chosen earlier.
InitSettings ==
    /\ now = 0
    /\ memoryCache = EmptyMemory
    /\ localStorage \in {[sk \in StorageKeys |->
                            IF sk = STORAGE_KEYS.SETTINGS THEN item ELSE NoItem] :
                         item \in {NoItem} \cup {StoredJSON([photographyMode |-> mode]) :
                                                   mode \in Modes}}
    /\ ret \in {Call("loadWeatherData", <<WeatherPayload(weather), AstroPayload(astro),
                                         DailyData(daily)>>, Null, FALSE, FALSE) :
                  weather \in WeatherBodies, astro \in AstroDataIds, daily \in DailyBodies}
    /\ lastSet = [k \in CacheKeys |-> NoCall]
    /\ location = "L1"
    /\ conditions = <<>>
    /\ score = <<>>
    /\ forecast = <<>>
    /\ error = Null
    /\ cycle = [c \in Cycles |-> IdleCycle]
    /\ fetched = [k \in CacheKeys |-> NoFetch]

settingsFrame == <<now, memoryCache, lastSet, location, error, cycle, fetched>>

\* this.processWeatherData(weatherData, astroData, astronomicalData)
ProcessRefresh ==
    /\ ret.op = "loadWeatherData"
    /\ LET c == CurrentConditions(ret.key[1], ret.key[2], ret.key[3], now)
           mode == getSettings(localStorage).photographyMode
       IN  /\ conditions' = <<c>>
           /\ score' = <<calculateScore(c, mode)>>
           /\ forecast' = buildForecastData(ret.key[1], ret.key[2], ret.key[3], mode)
    /\ ret' = Call("processWeatherData", ret.key, Null, FALSE, FALSE)
    /\ UNCHANGED <<settingsFrame, localStorage>>

\* updateSettings(updates): the statement `this.buildForecastData;` of line
\* 613 names the method without calling it.
UpdateSettings(updates, full) ==
    /\ LET r == updateSettings(localStorage, updates, full)
       IN  /\ localStorage' = r.ls
           /\ score' = IF Has(updates, "photographyMode") /\ conditions # <<>>
                         THEN <<calculateScore(conditions[1], r.value.photographyMode)>>
                         ELSE score
    /\ ret' = Call("updateSettings", ret.key, updates, FALSE, full)
    /\ UNCHANGED <<settingsFrame, conditions, forecast>>

NextSettings ==
    \/ ProcessRefresh
    \/ \E updates \in SettingsUpdates, full \in BOOLEAN : UpdateSettings(updates, full)

SpecSettings == InitSettings /\ [][NextSettings]_appVars

\* ---------------------------------------------------- settings properties
\* C24 (as claimed): after updateSettings changes photographyMode while
\* conditions are loaded, state.score and every entry of state.forecast are
\* those computed with the new mode.
C24_ForecastRebuilt ==
    ( /\ ret.op = "updateSettings"
      /\ Has(ret.value, "photographyMode")
      /\ ~ret.full
      /\ conditions # <<>> ) =>
        /\ score = <<calculateScore(conditions[1], ret.value.photographyMode)>>
        /\ forecast = buildForecastData(ret.key[1], ret.key[2], ret.key[3],
                                        ret.value.photographyMode)

\* ================================================ the store specification
\* The cache operations over a localStorage that also holds the items of
\* the storage service: settings, favourites and the last location.
\* The stored favourites and last location, opaque to the cache.
StoredFavorites == StoredJSON("favorites")

StoredLocation == StoredJSON("location")

\* A fresh process over a store that holds all three items of the storage
\* service, and where earlier sessions may have left unparsable cache items.
InitStore ==
    /\ now = 0
    /\ memoryCache = EmptyMemory
    /\ localStorage \in
          {ls \in [StorageKeys \cup AppStorageKeys ->
                      {NoItem, Garbage, SettingsItem, StoredFavorites, StoredLocation}] :
              /\ ls[STORAGE_KEYS.SETTINGS] = SettingsItem
              /\ ls[STORAGE_KEYS.FAVORITES] = StoredFavorites
              /\ ls[STORAGE_KEYS.LAST_LOCATION] = StoredLocation
              /\ \A k \in CacheKeys :
                    /\ ls[_generateKey(k)] \in {NoItem, Garbage}
                    /\ k \notin StaleKeys => ls[_generateKey(k)] = NoItem}
    /\ ret = Call("init", <<>>, Null, FALSE, FALSE)
    /\ lastSet = [k \in CacheKeys |-> NoCall]
    /\ location = Null
    /\ conditions = <<>>
    /\ score = <<>>
    /\ forecast = <<>>
    /\ error = Null
    /\ cycle = [c \in Cycles |-> IdleCycle]
    /\ fetched = [k \in CacheKeys |-> NoFetch]

SpecStore == InitStore /\ [][NextCache]_cacheVars

\* C28: the default seeing dataset is never written to the cache, so no
\* seeing fetch is ever served the default data from the cache.
C28_DefaultNeverCached ==
    /\ \A loc \in OpLocations :
          /\ memoryCache[_generateKey(<<"astro", loc>>)].data # DefaultAstro
          /\ localStorage[_generateKey(<<"astro", loc>>)].data # DefaultAstro
    /\ \A c \in Cycles : ~(cycle[c].astro.cached /\ cycle[c].astro.data = DefaultAstro)

\* ------------------------------------------------------ store properties
\* C26: eviction and clear() delete only durable keys that carry the cache
\* prefix: every cache operation, storage-full evictions included, leaves
\* the stored settings, favourites and last location unchanged.
C26_AppItemsStep ==
    \A sk \in DOMAIN localStorage :
        ~startsWithCachePrefix(sk) => localStorage'[sk] = localStorage[sk]

C26_OnlyPrefixedKeysDeleted == [][C26_AppItemsStep]_cacheVars

\* A set() that found the store full has run its eviction next to stored
\* settings, favourites and a last location.
C26_Witness ==
    /\ ret.op = "set"
    /\ ret.full
    /\ localStorage[STORAGE_KEYS.SETTINGS] = SettingsItem
    /\ localStorage[STORAGE_KEYS.FAVORITES] = StoredFavorites
    /\ localStorage[STORAGE_KEYS.LAST_LOCATION] = StoredLocation
    /\ \A k \in CacheKeys : localStorage[_generateKey(k)] = NoItem
    /\ \E k \in CacheKeys : memoryCache[_generateKey(k)].kind = "entry"

\* ============================================== overlapping refresh cycles
\* loadWeatherData is neither deduplicated nor cancelled: a trigger that
\* arrives while an earlier cycle awaits its fetches starts a second one.
RaceCycles == {"c1", "c2"}

\* What the weather feed answers for a location.
WeatherOf(loc) == IF loc = "L1" THEN "W1" ELSE "W2"

\* A page just constructed over an empty cache.
InitRace ==
    /\ now = 0
    /\ memoryCache = EmptyMemory
    /\ localStorage = [sk \in StorageKeys |->
                          IF sk = <<"skyready_settings">> THEN SettingsItem ELSE NoItem]
    /\ ret = Call("init", <<>>, Null, FALSE, FALSE)
    /\ lastSet = [k \in CacheKeys |-> NoCall]
    /\ location = Null
    /\ conditions = <<>>
    /\ score = <<>>
    /\ forecast = <<>>
    /\ error = Null
    /\ cycle = [c \in RaceCycles |-> IdleCycle]
    /\ fetched = [k \in CacheKeys |-> NoFetch]

\* The triggers of loadWeatherData and the answers of the three feeds, every
\* request answered 2xx with the data of the location it was made for and
\* every cache write succeeding.
NextRace ==
    \/ \E c \in RaceCycles, loc \in Locations : LoadInitialData(c, loc)
    \/ \E c \in RaceCycles : RefreshData(c)
    \/ \E c \in RaceCycles, loc \in Locations : SelectLocation(c, loc)
    \/ \E c \in RaceCycles : WeatherResponse(c, WeatherOf(cycle[c].loc), FALSE)
    \/ \E c \in RaceCycles : AstroResponse(c, "S1", FALSE)
    \/ \E c \in RaceCycles : DailyResponse(c, "D1", FALSE)

SpecRace == InitRace /\ [][NextRace]_appVars

\* ------------------------------------------------------- race properties
\* No fetch of any cycle is in flight.
Quiescent == \A c \in RaceCycles : Free(c)

\* C27: once no fetch is in flight, the displayed conditions, score and
\* forecast are those computed from the data of the current location, never
\* those of a previously selected one.
C27_DisplayOfCurrentLocation ==
    (Quiescent /\ location # Null /\ conditions # <<>>) =>
        LET r == ProcessedTable[WeatherOf(location), "S1", "D1", now]
        IN  /\ conditions = r.conditions
            /\ score = r.score
            /\ forecast = r.forecast

====
